# bot_adventure_time in TLA+

Models of the state-changing core of the Telegram bot in `src/bot/`: who takes part in an
event, who waits, who rides with whom; which private messages reach their addressee; what
the members of a split bill owe; what the creation and edit dialogues keep between their
steps; who may use the bot and how often; which reminders are sent, and when. TLC checks the models on small instances, TLAPS proves
their main invariants for every value of the constants. `PROJECT.json` maps every
definition to the source lines it stands for, and lists runs, mutants, findings, hazards and
theorems.

Directory:

| file | what it is |
| --- | --- |
| `Participation.tla` | the roster of one event, its queue, guests and cars, and all handlers that change them |
| `SeatBook.tla` | the abstract specification: what a roster with a limit promises |
| `MCParticipation.tla` | sets of handlers and symmetry for TLC |
| `ParticipationProofs.tla` | types, the shape of a row |
| `OverbookingProofs.tla` | how far overlapping handlers can overbook the list and overfill a car |
| `SerialProofs.tla` | handlers that run one at a time: the seat book, the queue in turn, keyboards of any age, the cancelled event |
| `Notifications.tla`, `MCNotifications.tla`, `NotificationsProofs.tla` | private messages, quiet hours, the queue and its jobs |
| `Mailbox.tla` | the abstract specification: what becomes of a private message |
| `SplitBill.tla`, `MCSplitBill.tla`, `SplitBillProofs.tla` | one bill, its members, payments, shares and closing |
| `Ledger.tla` | the abstract specification: who owes, who has settled, when a bill is final |
| `Fsm.tla` | the dialogue row of a user, and what empties it |
| `EventWizard.tla`, `BillWizard.tla`, `EventEdit.tla` | the three dialogues over that row |
| `Dialogues.tla`, `MCDialogues.tla`, `DialoguesProofs.tla` | their composition, its properties, its proofs |
| `Access.tla`, `MCAccess.tla`, `AccessProofs.tla` | requests, approval, the membership check, the daily limit |
| `Reminders.tla`, `MCReminders.tla`, `RemindersProofs.tla` | the jobs of an event and the attendance question |

## 1. The system

The bot is one asyncio process (aiogram 3, APScheduler) over PostgreSQL. Three facts about
it decide how everything is modelled:

1. **Every update is a task.** `Dispatcher.start_polling` handles updates as concurrent
   asyncio tasks, and the scheduler's jobs are tasks of the same loop. There is one thread:
   code between two `await`s is atomic.
2. **Every SQL statement commits alone.** `bot/db_pool.py:123-164` takes a connection from
   the pool for each `execute`, `fetch`, `fetchrow`. No code under `bot/` opens a transaction,
   so a helper of `bot/db` with two statements can be interrupted between them by another
   task, by an exception or by the end of the process.
3. **PostgreSQL runs at READ COMMITTED.** A subquery in a statement reads the snapshot taken
   when the statement starts. A row lock is taken only on the rows the statement writes, so a
   count over other rows that guards an INSERT can be out of date when the row is written.

A restart (Docker, `restart: unless-stopped`) ends every task; the tables, the FSM states
among them (`fsm_states`), remain.

### Inventory

| component | state it keeps | operations | talks to |
| --- | --- | --- | --- |
| Participation (`handlers/participation.py`, `db/participants.py`) | `participants`: status, guests, joined_at | join, reserve, decline, guests; promotion from the queue | event records, notifications, card |
| Carpool (same files) | `participants`: car_seats, passenger_of; keyboards in chats; FSM state | seek, drive, ride, give up | participation (same rows) |
| Manual management (`handlers/my_events.py`) | none of its own | add a participant, set a driver, seat a passenger | participation |
| Event records (`db/events.py`) | `events`: status, limit, dates, card | create, update, cancel | every event component |
| Event edit (`event_scenarios/edit.py`, `cancel.py`) | FSM data | edit one field, cancel | event records, scheduler |
| Private notifications (`utils/notifications.py`, `db/pending_notifications.py`, `db/notification_settings.py`) | `pending_notifications`, the mode of a user | send, queue, flush, clean | called by participation, scheduler, digest |
| Split bill (`split_bill_feature/`, `db/split_bill.py`) | `split_bill_events`, `split_bill_participants` | create, join, leave, paid, add, remove, close, recalculate | event records (source event) |
| Split bill dialogue (same) | FSM state and data | eight steps, back, cancel, publish | split bill |
| Scheduler and reminders (`utils/scheduler.py`) | jobs in memory | plan, remind, ask for confirmation, restore | event records, attendance, notifications |
| Attendance (`db/attendance.py`) | `attendance_responses` | prompt, confirm, decline, summary | participation (a decline removes) |
| Access (`middleware/command_access.py`, `db/members.py`, `db/usage.py`, `common_feature/`) | approved, pending and rejected members, daily counts | request, approve, reject, membership check, count | in front of every handler |
| Event wizard (`event_scenarios/create.py`, ...) | FSM state and data | steps, back, cancel, preview, publish | event records, scheduler |
| FSM storage (`fsm_storage_pg.py`) | `fsm_states` | set state, set data, cleanup | every dialogue |
| Process (`main.py`, `db_pool.py`) | pool, polling | start, retry, shut down | everything |
| Birthdays, subscriptions, random meetings | their tables | post, rewrite a list, pair | scheduler |
| Rate limit, durations, links, topics, metrics, digest, texts | caches, none | parse, count, lay out | handlers |

### What is hard, and what makes each part correct

* **Participation.** Check and write of a limit are apart: `add_participant` and
  `promote_user_from_waitlist` have the count inside the statement, which does not lock;
  `set_participant_guest_count` and `move_from_waitlist` have it in an earlier statement.
  Correct is: nobody gets in over the limit while handlers run one at a time; when they
  overlap the excess is bounded and never accumulates; the queue is served
  in turn; a place given up reaches whoever is first.
* **Carpool.** A row changes its role by upserts that each reset a few columns; a keyboard is
  pressed long after it was built. Correct is: one role per row; nobody boards a car without a
  driver or a free seat; a car holds no more passengers than its driver has offered places since it was
  empty, but for the boardings that overlapped.
* **Notifications.** Two jobs work on one queue, a message is delivered before that is
  recorded, both the request and the record can fail. Correct is: no message twice; `sent`
  means delivered; a message of the night is settled in the morning.
* **Split bill.** Each join is followed by a recalculation that reads in one statement and
  writes in many; closing reads in one and writes in another. Correct is: no share forgotten;
  the shares agree when the handlers are done, or after the next change; a closed bill has no debtor.
* **Access.** A pending request, approval and rejection, and the membership check of the next
  command overlap; the daily count is read and written in separate statements.
* **Dialogues.** Steps back, repeated presses of the last button, restarts between the two
  upserts of state and data.
* **Reminders.** Jobs live in memory, are planned again after a restart, and do not follow an
  edit of the date.
* **Process.** A network error after the shutdown handler has closed pool and scheduler.

Every hazard, at its line and with the properties that watch it, is in `PROJECT.json`
`"hazards"`; those that no property covers name the planned module or say why.

## 2. The modules and the code

### Participation

One event. State and the code behind it:

| variable | code |
| --- | --- |
| `active`, `limit` | `events.status = 'active'`, `events.participant_limit` (0 or less: no limit) |
| `row[u]` | the row of `participants` for this event and user `u`; status `"none"` when there is none |
| `before[u]` | the order of `joined_at`: who of the waiting users has an earlier one. A clock value would be unbounded; the handlers only compare |
| `offered[u]` | history: the most seats `u` has offered as a driver since nobody rode with him. Nothing reads it but the bound of a car |
| `fsm[u]` | the FSM state of `u` (guests question, seats question); one per user, as `FSMStrategy.GLOBAL_USER` has it |
| `offers[u]` | the drivers on the choose-driver keyboards in `u`'s chat; a keyboard stays until a press on it succeeds, so offers are only added |
| `job[t]` | the handler that task `t` runs: the statement it sends next, and the values it has read and will use |

A handler is cut where the program can be interrupted between a read and a write that relies
on it. Reads that come before a handler's first write and are not used by later statements
are taken with the press (the later statement reads again). The two capacity-checked
statements are two steps each, snapshot and write (`InsertSnapshot`/`InsertWrite`,
`PromoteSnapshot`/`PromoteWrite`), because the count is taken before the row is locked.

| code | actions |
| --- | --- |
| `join_event` | `JoinClick`, then `PromoteSnapshot`, `PromoteWrite` (he waits) or `InsertSnapshot`, `InsertWrite` |
| `waitlist_event` | `ReserveClick`, then `InsertReserve`, or `DemoteRiders`, `DemoteWrite` and the pick |
| `decline_event`, `decline_attendance` | `DeclineClick`, `RemoveRiders`, `RemoveWrite` and the pick |
| `move_from_waitlist` (the pick) | `PickCheck`, `PickSelect`, `PickWrite`, `NotifyPromoted` |
| `ask_guest_count`, `process_guest_count` | `GuestsClick`, `GuestsMessage`, `GuestCheck`, `GuestWrite` |
| `seek_ride_toggle` | `SeekClick`, `SeekWrite` or the insertion |
| `become_driver`, `process_car_seats` | `DriverClick`, `SeatsMessage`, `DriveWrite`, `EnsureMain` |
| `become_passenger`, `choose_driver` | `PassengerClick`, `ChooseDriver`, `RideWrite`, `EnsureMain` |
| the manual commands of `my_events.py` | `ManualAdd`, `ManualDriver`, `ManualPassenger` |
| the limit field of the edit dialogue | `EditLimit` |
| `delete_event_execute`, `cancel_event` | `DeleteClick`, `CancelMark`, `CancelClear` |
| Docker restarts the container | `Restart` |

`decline_attendance` takes the steps of `decline_event` under stricter guards (active event,
a main member), so it adds no behaviour of the roster; the answer it stores belongs to the
attendance component. The text of the card and of messages is left out; that a promotion is
followed by a message is a step of the handler (`NotifyPromoted`), what becomes of that message is
`Notifications`.

`SeatBook` says what all this is for, with every press one step: `Take`, `Wait`, `Leave`,
`Bring`, `Resize`, `Close`, `Clear`. Places and guests fit, a new name goes to the end of the
queue, nobody gets in after the end. The refinement mapping (`SB` at the end of
`Participation`) reads a place from a row's status and the queue from `before`. A handler's
reads and bookkeeping are stutters, its writes the abstract steps.

### Notifications

Messages are numbers `1..NumNotes`; each is one call of `send_private_dm` (`SendBegin` reads the
mode, `SendClock` the clock, then `SendStamp` and `SendEnqueue`, or `SendNow`). Every caller names the kind and
leaves the options about quiet hours alone, so a message of the night is queued, never forced or dropped.
The two cron jobs `every_10_minutes` and `quiet_end` run `flush_pending_notifications`:
`FlushTick`, `Claim` (the `UPDATE ... FOR UPDATE SKIP LOCKED ... RETURNING`), and for each row
`FlushSend`, `FlushMark`. `created_at` is read before the INSERT, so a row may come into the queue ahead of rows that are there
already: `SendStamp` dates it, `SendEnqueue` inserts it. `status[n]` is the row, `got[n]` counts the copies the addressee has
really received: a request to Telegram that ends in an error may still have been carried out.
`DatabaseFails` lets a statement raise (an exception in the mark of success leads to the mark of
failure, one in the except branch leaves the job), `Crash` ends the process, `Cleanup` deletes old
settled rows, `ClockTick` moves the hour.

`Mailbox` says what all this is for: a message is accepted, dated, kept in the box in the place its date gives it, taken out from its front
(`Take`: a batch at most, nobody older left behind), given once or lost. The mapping (`MB`) reads the place of a message from its call, its row and the jobs: it is in
hand (`InHand`) only while a job holds it and has not delivered it. A message may be lost in hand, by Telegram's error or a
restart; it is never lost in the box, and whatever a job does after the delivery, the mark that fails among them, is a stutter.

### SplitBill

One bill. `members`, `paid` and `share` are the rows of `split_bill_participants`; `share[u]` is the
number of people the total was divided by when `u`'s row was last updated, 0 for the `0.0` of
the INSERT, so two shares are equal exactly when they were computed for equally many people.
`Finalize` creates the bill and inserts the participants of the source event and the organizer one
by one; each `Insert` or `Delete` is followed by `RecalculateRead` and one `RecalculateWrite` per
member. `PaidRead`/`PaidWrite` and `CloseRead`/`CloseWrite` are the two other pairs of
statements. `Break` stops one handler (a failing statement) or all (a restart). Three history variables record what
went wrong, and the first two are taken back when it has been mended: `raced` (changes of the members have overlapped, and none
has begun alone since), `broken` (a recalculation has broken off, and none has read the members since), `contested` (a handler
has run while another was about to close the bill).

`Ledger` is the abstract bill: who owes (`owing`), who has settled, and the status. `Join`, `Depart` and `Settle` need an open bill,
`Close` needs somebody who took part and nobody who owes, and no entry follows it. The mapping (`Book`) reads both sets from
`members` and `paid`; a recalculation is a stutter. The ledger promises nothing once a handler has run in the middle of a closing
(`disturbed`): that a join may then slip into a closed bill is what the code does. Other overlaps, and broken handlers, it does admit.

### Dialogues: Fsm, EventWizard, BillWizard, EventEdit

One user, and the one row of `fsm_states` that all of his dialogues share
(`FSMStrategy.GLOBAL_USER`). No dialogue empties the row when it starts, so a wizard begins on
the answers of an abandoned one; that is the reason the three are composed and not checked apart.

| variable | code |
| --- | --- |
| `state` | `fsm_states.state` |
| `has` | the keys of `data_json` that hold a usable value (only those a later step branches on or indexes without a default) |
| `own`, `dialogue`, `layers` | history: which questions were answered since the running wizard started, how it was started, and how much work lies on the row since it was empty |
| `target`, `field` | `data["edit_event_id"]`, `data["edit_field"]` |
| `screen` | the last prompt in the private chat, with the event and the field it asked about |
| `sending` | the publication whose handler is still at work |
| `topics` | whether `topics_config.py` names a topic |

An action of a wizard is the handler of that name: `ProcessTitle`, `ProcessPeriodMode`,
`AdvanceAfterDatetime` and the rest; `PreviousStep` is `previous_map` with its exceptions,
`ShowEventStepPrompt` and `ShowSplitBillStepPrompt` are the functions that print a step again. A
handler answers to its state, whatever message its button hangs on, so an old button is
no case of its own. `Clear` is `FSMContext.clear`; `CancelCreate`, `OtherCommand` (a private command
stops a wizard, never an edit), `CleanupStaleFsmStates` and `Restart` may cut in anywhere.

A handler is one step: its statements follow each other in a burst and the next click of the same person
is seconds away. The exceptions are the two publications, which talk to Telegram and to a weather
service before they empty the row: the press (`PublishPreviewedEvent`, `SplitBillRecipientName`) and the
end (`FinalizeEventCreation`, `FinalizeSplitBill`) are two steps, with everything the user does meanwhile
between them.

### Access

Ordinary persons in front of the middleware. The owner and the admins act on other people's rows; their own
rows and limits are left out.

| variable | code |
| --- | --- |
| `pending`, `approved[u]` | `pending_users`; `approved_members` with `intro_status` |
| `inGroup` | the members of the Telegram group, which change without the bot |
| `count[u]` | the number of today in `user_command_usage_daily` |
| `job[s]` | a handler at work: where it awaits, and what it has read |
| `admission`, `crossed`, `ran`, `overlapped` | history: how a person stands with the owner; whose row was written under a handler about to write it anew; the commands that really ran; whose counting overlapped |

| code | actions |
| --- | --- |
| `CommandAccessMiddleware._sync_membership` | `Receive`, `AskGroup`, `Evict` |
| `_authorize` | `DailyLimit`, `RefuseCommand`, `Open` |
| `_apply_limit`, `increment_daily_command_usage` | `ApplyLimit`, `IncrementRead`, `IncrementWrite`; `ResetUserLimit`, `NewDay` |
| `cmd_start`, `rules_ack`, a card's button | `InGroup`, `IsMemberApproved`, `GetApprovedMember`, `UpsertApprovedMember`; `RulesAck`; `CardButton`, `CardInGroup` |
| `ensure_group_member_access_request` | `EnsureNotApproved`, `EnsureNotPending`, `AddPendingUser` |
| the owner's buttons | `ApproveRead`, `ApproveInsert`, `ApproveDelete`; `Reject`; `IntroDone`; `IntroToggleRead`, `IntroToggleWrite` |
| `/pending_intro`, `/sync_members` | `Purge`, `PurgeAskGroup`, `PurgeDelete`, `PurgeEnd` |

A step ends where the code awaits a statement or an answer of Telegram. What a person sends is `/start`, another
command (refused without a row, and to a member when it is the owner's), a button (refused to nobody: an outsider's
counts against the outsider's limit and its handler runs) or a button of a running wizard (counted not at all).
The question whether somebody is in the group has three answers: a refusal of Telegram's counts as "outside", so the middleware may
delete the row of a member who is inside; any other error ends the update there, while `/sync_members`, `/start` and
the cards' buttons take it, too, for "outside". `Join` and `Leave` are people entering and leaving the
group; `Restart` ends the handlers.

### Reminders

The jobs of one event, over a clock of abstract hours.

| variable | code |
| --- | --- |
| `jobs`, `plannedFor`, `ran` | the scheduler's jobs, in memory; history: the date they were planned for, the jobs that have run |
| `run` | the job at work: the recipients still to be served and those served |
| `date`, `active`, `publishing` | `events.date_time`, `status`; the publication that has not yet planned |
| `role[u]`, `answer[u]` | `participants.status` (out, going, in a car); `attendance_responses.response` |
| `declining`, `asked` | a decline whose removal is to come; who sees the question |
| `chat`, `remembered` | the reminders in the chats that the bot can still delete, or is about to remember; `_reminder_message_ids` |
| `stray` | the chats with a reminder that nobody can delete any more |
| `queued` | the reminders in `pending_notifications` |

`ScheduleRemindersForEvent` and `RestoreJobs` plan (`Plan`, `Ahead`), `Start` takes a due job, `SendReminder`,
`SendAttendancePrompt`, `DeleteEventRemindersAtStart`, `SendEmptyEventOrganizerAlert` are the jobs;
`DeletePreviousReminders`, `RemindOne`, `RemindEnd`, `RemindFails`, `RecordOne`, `AskOne`, `AskFails` their
statements and requests. `ConfirmAttendance`, `DeclineAttendance`, `DeclineRemove`, `EditDate`, `CancelEvent` are
handlers; `Stop` ends the process. `ChangeRoster` stands for everything `Participation` does to a row (marked
external). `DeclineRemove` takes its removal and the promotion after it as one step: their interleavings
are what `Participation` is about.

A run ends before the clock moves: it takes seconds, jobs are half an hour apart. A reminder stays in a chat until the bot
deletes it, and the bot deletes only what it holds the id of. The ids are in memory alone, so a message goes from `chat` to `stray`
when the process ends (`Stop`), when the run that sent it raises before it has stored its ids (`RemindFails`), when Telegram refuses
the deletion, or an error ends the run in the middle of the deletions (`DeletePreviousReminders`). It is a stray from the
start when Telegram delivered it and answered an error, or when it went through the queue of the night: `send_private_dm` answers
`True` for a queued message, the scheduler remembers that `True` as the id 1, and `FlushPending` delivers it in the morning without
noting any id. Strays are never deleted; what the properties say of the others, they say with that exception. Only
`status = 'going'` is reminded (`scheduler.py:243`): drivers, passengers and ride seekers get the attendance question and no reminder.

Definitions marked `Fault` are no part of the models: each is a plausible bug of the definition
after it, and the mutants of `PROJECT.json` put it in that definition's place to show that the
property notices.

## 3. The runs

| run | instance | distinct states | shows |
| --- | --- | --- | --- |
| `roster_serial` | 3 users, 1 handler, limits 0, 1, 2, 1 guest, ride seekers, FairSpec | 99 000 | `ImplementsSeatBook`: one handler at a time, the roster is the seat book. `PromotedInTurn`: nobody is promoted past someone who waits. `FreedSeatIsTaken`: a place given up reaches the first in the queue |
| `roster_race` | 3 users, 2 handlers, limits 1, 2, 1 guest, restarts | 254 715 | `OverbookingBounded`: the list exceeds its limit by what the overlapping handlers were granted and no more; `TypeOK` |
| `carpool_race` | 3 users, 2 handlers, 2 seats | 1 083 500 | `RosterShape`: no row in two roles. `CarBounded`: no more passengers than places offered since the car was empty, but for one overlapping boarding |
| `carpool_serial` | 3 users, 1 handler, 2 seats, keyboards of any age, cancellation | 300 578 | `BoardsFreeSeat`: a keyboard puts nobody into a car without a driver or a free seat. `CancelledGainsOnlyCars`: a cancelled event gains only drivers and passengers |
| `night_mail` | 2 messages, batch of 1, 3 hours, 1 fault, FairSpec | 32 688 | `ImplementsMailbox`: out of the queue in order, never lost in it. `DeliveredOnce`, `ClaimsAreExclusive`, `SentWasDelivered`, `TypeOK`; `QueuedIsSettled` without faults |
| `bill` | organizer and 2 members, 2 handlers | 532 349 | `ShareAwaited`, `SharesAgree`: a share that is 0 is on its way, and one undisturbed join or departure mends all shares, whatever overlapped or broke off before. `ImplementsLedger`, `ClosedIsPaid`: closed without a debt, and final, unless a handler ran in the middle of the closing; `TypeOK` |
| `dialogues` | 2 events, 2 layers, with and without topics | 631 731 | `AnswersReady`: no step misses a value. `OwnAnswers`, `PeriodAsAnswered`: what is published was answered in this dialogue. `AskedIsExpected`, `TypedLandsWhereAsked`: what is typed is taken for what was asked. `BackGoesBack`; `TypeOK` |
| `access` | 1 person, 2 handlers, limits 2 and 1 | 1 023 154 | `AdmittedByOwner`: nobody gets in without the owner. `RewriteKeepsIntro`: /start and the rules button undo nothing. `LimitHoldsAlone`. `AwayLosesRow`: who stays away is put out; `TypeOK` |
| `reminders` | 2 members, dates 1 and 4, leads 1, 2, 3, horizon 4, 1 stray | 1 175 973 | `NothingTwice`, `LeadIsTrue`, `AnswerKept` over restarts and edits. `OneReminderEach`, `ReminderGoes`: strays excepted, one reminder in a chat at most, and none for good; `TypeOK` |

Violations, each a run of its own with one property that a docstring or the README states and
that TLC refutes:

| run | property | what happens (length of the trace) |
| --- | --- | --- |
| `last_seat` | `LimitRespected` | two joins on the last place both see it free and are both written (7 states). The docstring calls the insertion atomic |
| `mail_lost` | `NightMailArrives` | a restart between claim and mark leaves rows in `sending`, which nothing reads (18) |
| `invite_lost` | `InvitedStaysApproved` | an approved person presses a button before he has used his invitation: the membership check deletes his approval (10) |

**Exceptions the properties name.** What the code does in these places is in the models, and the
property that would forbid it says so, because nothing in the repository promises otherwise:

* `CancelledGainsOnlyCars`: `process_car_seats` and `choose_driver` do not ask whether the event is still active, so a seats
  question or a keyboard answered late puts a driver or a passenger on the cleared list. A keyboard opened earlier also turns a
  driver into a passenger without giving up his car (`participation.py:701`); `BoardsFreeSeat` is about the car boarded.
* `CarBounded`: a driver who presses again and names fewer seats keeps his passengers (`set_driver`, `participants.py:563`), without
  any overlap; the bound is therefore what he has offered since his car was empty (`offered`). Overlapping boardings come on top of it.
* `SharesAgree`, `ShareAwaited`: recalculations that overlap may leave unequal shares, one that breaks off old ones or a 0, until the
  next change of the members (`raced`, `broken`).
* `ClosedIsPaid`, `ImplementsLedger`: a join in the middle of a closing makes a debtor of a closed bill (`contested`).
* `OwnAnswers`: a row that carries the `from_copy` mark of an abandoned copy sends a new event past the questions a copy skips.
* `BackGoesBack`: the step back from a bill's topic moves the dialogue forward, to the requisites.
* `AdmittedByOwner`: a person evicted while `/start` or the rules button is about to write his row anew is written back (`raced`).
* `OneReminderEach`, `ReminderGoes`: strays. After a restart, a failed run or a refused deletion a chat may show two reminders,
  and one for good, although `scheduler.py:232` says that the last reminder is deleted at the start.
* `LimitHoldsAlone`: two commands counted at the same time may count as one.
* `LeadIsTrue`, `AnswerKept`: after an edit of the date the old jobs fire at the old hours, and the question is asked again after the next start.

**Bounds.** Three users give a queue of two behind a full event, a member who leaves while another
joins and a third waits, and a driver with a passenger and a seeker. Limits 1 and 2 make events
full; 0 is "no limit". One guest suffices for every branch of the guest check (fits, does not fit, unchanged,
reduced), and the theorems take any number. Two handlers overlap at every pair of statements; three would
only repeat the pairs, and the bounds proved hold for any number. Two seats are the driver's own and one to
fight over. A day of three hours with two quiet ones crosses midnight as 23 to 8 does. Two messages are one
more than a batch of one, so that somebody stays in the queue and the order out of it matters. A fault in the middle of a batch needs a batch of two;
three messages of which two fit exceed what a run with liveness can take, and the middle of a batch is covered by the theorems instead, which hold for every
batch size: all properties of `night_mail` but `QueuedIsSettled` are proved. One fault is what each finding needs. In `dialogues`, two events let a menu of one be opened over an edit of the
other; `MaxLayers` 2 lets a second dialogue, or the edit of a second event, begin on the remains of a first one, which is
where answers get mixed, and clearing the row sets the count back. In `access` the rows of different persons meet in the
purge loop alone, which treats them one by one: one person with two handlers of his own, the owner's or an admin's shows every overlap of
two handlers on one row; the limits 2 and 1 tell a member from an outsider; `MaxCount` lets every number be reset. In `reminders` the intervals 1, 2, 3 give reminders that replace an
earlier one and a day asked about instead of reminded of (3); two dates let an edit move the jobs to and
fro; the horizon is the later date. At the date 4 a reminder and the alert are due in one moment; at the date 1 only the clean-up is still ahead.
`MaxStrays` 1 is one reminder in the queue or astray: enough for each way to lose one, beside which the next one is sent.
`Handlers` restricts a run of `Participation` to the entry points its question is
about; between them the passing runs fire every action. Users are interchangeable (in a bill, those other than
the organizer), so are tasks and events, hence the symmetry, used only with invariants and action properties.

**Deadlock** is checked in every run: a press of a button, a command or a restart is always possible.

**Fairness.** Safety needs none. `FairSpec` of `Participation` has weak fairness of `Work(t)`: asyncio
resumes every task whose statement has been answered, so a handler in flight goes on; nothing obliges a
user to press anything, and nothing obliges one handler to be faster than another. `FairSpec` of
`Notifications` has weak fairness of a call's and a job's steps for the same reason, of the clock, and strong
fairness of `FlushTick(j)`: they are cron jobs, `every_10_minutes` comes six times in each hour, so one
that is due again and again while the hour is not quiet does run. `quiet_end` is due in one hour of
the day, which strong fairness gives once a day at least in the long run. `Spec` of `Reminders` has weak fairness of
`Tick \/ JobStep`: time passes, and where it waits for a job, the scheduler's task goes on; the process may be down, and no handler
or restart is owed. `Access` has no fairness: `AwayLosesRow` states as its premise that the person stays away and that
his updates are handled again and again.

## 4. What is proved

All proofs are checked by TLAPS (SMT, Zenon, PTL); every constant is arbitrary within the named assumption
of its module (finite sets of users and tasks; natural bounds; hours within the day).

* **`ParticipationProofs`.** `TypeCorrect`: the types, from `Typed`, which adds to `TypeOK` what a
  handler carries at each statement (`JobOK`: at a pick's write the target is a user, and so on); without it a
  write could store a non-user. `RosterShapeCorrect` rests on `TableStep`: every step
  of the specification is one `Statement` (rows change as one of the upserts changes them, at most one user
  goes to the end of the queue) or touches no row. The shape is then preserved by any
  statement, whichever handler sends it.
* **`OverbookingProofs`.** `OverbookingIsBounded`: with limits of at least 1 and without the carpool handlers
  (`NoCarpool`, `Limited`), `Occupied` never exceeds
  `MaxLimit + StaleGuests + (|Tasks| - 1) * MostGranted`. The bound alone is not inductive: a
  handler that was granted a place writes it later, whatever the others did. The invariant
  `PromisesBounded` therefore counts seats taken together with those granted and not yet written. A write turns
  a grant into a seat; a grant is made only when the seats taken leave room, so only what the *other* handlers hold
  can exceed the limit. The carpool handlers are excluded because `set_driver` and `set_passenger` insert
  without asking the limit at all, so no bound holds for them; a limit of 0 is no limit.
  `CarIsBounded`, without any hypothesis: a car holds at most `CarBound(d)` passengers, the places its driver has offered since it
  was empty and one for each other handler. As for
  the list, the strengthening `ClaimsBounded` counts, driver by driver, the passengers written and the handlers
  about to write one; the seats in the table never exceed those offered.
* **`SerialProofs`** is about handlers that run one at a time (`OneTask`): everything a handler has read is still so when it writes.
  `FreeSeatsAreBoarded`: `SeatKept`, the seat a handler was granted is free until it writes. `CancelledHasOnlyCars`
  (`Undisturbed`: no manual addition, and no restart, which may leave
  the table of a cancelled event uncleared): `Over` lists what a handler may still be doing once the event is over.
  `PromotionIsInTurn` (`OneTask` alone): `InTurn`, at a pick's write nobody but the user who gave the place up waits ahead of its target.
  `SeatBookIsImplemented` (`ByTheBook`): the roster implements `SeatBook`. The invariant `Booked` says that what the handler has read
  still holds (`Informed`: there is room, he is still on the list, his guests are as read and will fit, the one picked still waits) and that a closed list is empty or about to be cleared
  (`Settled`); with it every write is one step of the book. `ByTheBook` leaves out what the code does outside it: `set_driver` and
  `set_passenger` insert without asking the limit; the manual additions do not ask whether the event is cancelled; a
  restart between the cancellation and the clearing leaves members on the list of a closed event. The last two matter only where somebody
  can cancel. From the refinement follow `GrowthIsWithinLimit` (no step makes the list longer than the limit, whatever
  edits of the limit came before) and, without such edits, `LimitIsRespected`: the property that `last_seat` refutes for two handlers
  is true for one.
* **`NotificationsProofs`.** `AtMostOneDelivery`, `ExclusiveClaims`, `SentIsDelivered`, `TypeCorrect` for any number of
  messages, batch size and faults. The strengthening is `OnlyOneSender`: whoever may still send
  a message is alone in it (the call that has not returned, while there is no row; the pending row, before any
  claim; the job that holds the row and has not come to it), and no copy has been sent.
  `MailboxIsImplemented`, without any hypothesis: the invariant `Numbered` says that every message is dated once, before it is inserted, and no two of them alike (`Stamped`), which makes
  the first rows of `ORDER BY` a front of the queue (lemma `OldestAre`); the steps of a call, of a job and of the rest are mapped apart.
  `QuietHoursAreAnInterval`: both branches of `is_quiet_hours` are the one stretch of the clock from start to end.
  `QuietAllDayIsSilence`: with start = end, which `config.py` admits, no message is ever delivered.
* **`SplitBillProofs`.** `ZeroShareIsAwaited`, `SharesAgreeAtRest`, `ClosedHasNoDebtor`, `TypeCorrect` for any number of members
  and of overlapping handlers. Until something disturbs it, one handler at most is changing the members (`LoneSharer`), and its recalculation is
  carried through the loop: the rows that do not yet have the new share are those it has still to update
  (`Recalculating`); it divides by the members there are and never by nobody (`JobShape`). A handler that closes the bill is alone
  (`LoneCloser`), so the rows are touched on an open bill only, and nobody owes when it is closed (`BusyOpen`). `LedgerIsImplemented`, without any
  hypothesis: `Known` (a bill that is seen exists) and `Current` (what a handler has read of status and members is still so) make each
  write one entry of the ledger.
* **`DialoguesProofs`.** `AnswersAreReady`, `AnswersAreOwn`, `PeriodIsAsAnswered`, `AskedQuestionIsExpected`,
  `TypedValueLandsWhereAsked`, `BackNeverGoesOn`, `TypeCorrect`, for any events and any number of layers. The properties speak of the
  end of a dialogue; the invariant `Progress` (`EventProgress`, `BillProgress`, `PeriodProgress`) says at every step which
  questions lie behind it, so that no step back, command or other dialogue leads around one.
* **`AccessProofs`.** `OnlyTheOwnerAdmits`, `RewritesAreFaithful`, `LimitHolds`, `TypeCorrect` for any persons, handlers and limits. What
  matters is what a handler carries over an await: `JobsOK` (`JobShape`, `Reliable`) says that the row it is about to write anew belongs
  to a person let in, and is as it read it unless somebody crossed it; `Counted`, that while countings do not overlap the number read is
  the number stored and one handler at most stands between comparison and write.
* **`RemindersProofs`.** `NothingIsDoneTwice`, `OneReminderInAChat`, `LeadIsAlwaysTrue`, `AnswerIsKept`, `TypeCorrect` for any members,
  dates, leads and horizon. Jobs planned lie ahead, jobs that have run do not (`Planned`, `Past`, `Asleep`), so none is planned again;
  a run's lead is true to the date planned for (`RunShape`); the reminders in chats, but the strays, are remembered or the run's own, all of one hour
  (`Traced`, `OneHour`); an event whose date was never edited has one question in its life (`OneQuestion`).

**Only model-checked.** `FreedSeatIsTaken`, `QueuedIsSettled`, `ReminderGoes` and `AwayLosesRow`: they are liveness, and fairness
(`ENABLED`) is out of the provers' reach, as would be induction over data and RECURSIVE operators. No module uses RECURSIVE. Every other
property of a passing run is a theorem; where a theorem asks for more than its run (`ByTheBook`, `Limited`, `NoCarpool`), the reason is given above.

## 5. What is not modelled, and why

`PROJECT.json` `"components"` lists every part with its status.

* Left out for good, because no state the others depend on is in it: the layout of cards and texts, keyboards, metrics and
  monitoring, the read-only reports (digest, afisha, statistics, the monthly report), weather, the deployment scripts.
* Abstracted: amounts of a bill (to the number of people they are divided by), what a dialogue's answers say (to whether they
  are usable, and in which dialogue they were given), dates, names, the names of topics, the duration parser (a duration, a bare number, or refused).
* Not yet modelled: the overlapping redraws of a card; the retry loop of `main.py` against its shutdown handler; birthdays; subscriptions;
  random meetings; the rate limit of buttons (a limited press is one that changes nothing); in the access component the table `users`
  with its race in `db/users.py:21` and the statistics of commands; in the storage of dialogues a restart between the upserts of
  state and data of one handler.

Two behaviours the models show and no property forbids, because nothing in the repository promises otherwise: a raised
limit promotes nobody, and the departure of a member with guests promotes one; a batch of messages runs on into the quiet
hours.

## 6. Plan

Done: `Participation` with `SeatBook`, `Notifications` with `Mailbox`, `SplitBill` with `Ledger`, the dialogues, `Access`, `Reminders`, and
proofs of all their safety properties and of the three refinements. Next, in this order:

1. Abstract specifications of `Access` (a gate that the owner opens) and `Reminders` (what a member hears of an event), and their refinement.
2. **EventCard**: redraws that overlap; the last one written is the roster at rest, or not.
3. **PollingSupervisor**: the retry loop, the shutdown handler, the pool. A finding is likely.
4. **Birthdays**, **Subscriptions**: steps of one job; a list rewritten by several statements.
5. In `Fsm`, the two upserts of a handler as two steps, with a restart between them.
6. Pure algorithms, as functions against a reference definition: the rate limit's window, the pairing of random meetings, the duration.
