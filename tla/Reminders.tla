------------------------------- MODULE Reminders -------------------------------
(***************************************************************************)
(* The scheduled jobs of one event (bot/utils/scheduler.py): reminders,    *)
(* the question "are you still coming", the alert about an empty list and  *)
(* the clean-up at the start; and the answers to the question              *)
(* (bot/db/attendance.py).                                                 *)
(*                                                                         *)
(* Jobs and the ids of the messages sent live in the memory of the         *)
(* process.  Jobs are planned when the event is published and when the     *)
(* process starts, from the date then in the table; nothing plans or       *)
(* removes them when the event is edited or cancelled.  A job runs as a    *)
(* task: its sends and statements are steps, and the handlers of members   *)
(* run between them.  A run is over before the clock moves on: it takes    *)
(* seconds, the jobs are half an hour apart.                               *)
(*                                                                         *)
(* A reminder stays in a member's chat until the bot deletes it, and the   *)
(* bot deletes only what it holds the id of.  It loses ids: with the       *)
(* process, with a run that fails, with a deletion that Telegram refuses;  *)
(* and never learns that of a message delivered from the queue of the      *)
(* night, or against Telegram's own answer.  Such a message is a stray: it *)
(* stays for good.                                                         *)
(*                                                                         *)
(* A definition marked "Fault" is no part of the model: it is a plausible  *)
(* bug of the definition that follows it.                                  *)
(***************************************************************************)
EXTENDS Integers, FiniteSets

CONSTANTS
    Users,         \* members of the group
    Dates,         \* dates the event may have
    Intervals,     \* REMINDER_INTERVALS
    ConfirmLead,   \* ATTENDANCE_CONFIRM_SECONDS
    AlertLead,     \* EMPTY_EVENT_ALERT_HOURS
    Horizon,       \* bound: the last moment looked at
    MaxStrays      \* bound: how many reminders go astray

ASSUME RemindersAssumption ==
    /\ Dates \subseteq Nat /\ Intervals \subseteq Nat \ {0}
    /\ ConfirmLead \in Nat \ {0} /\ AlertLead \in Nat \ {0}
    /\ Horizon \in Nat /\ MaxStrays \in Nat

VARIABLES
    now,         \* the clock
    up,          \* the process runs
    date,        \* events.date_time
    active,      \* events.status = 'active'
    publishing,  \* the publication has yet to plan the jobs
    plannedFor,  \* the date the jobs in memory were planned for
    jobs,        \* the scheduler's jobs
    ran,         \* the jobs that have run, of this and of earlier processes
    run,         \* the run at work
    role,        \* participants.status, "car" for the three roles of a car
    answer,      \* attendance_responses.response, "none" without a row
    declining,   \* who has declined and is yet to be removed
    asked,       \* whose chat shows the question
    chat,        \* the reminders in private chats, but the strays
    stray,       \* in whose chat a reminder went astray
    queued,      \* reminders in pending_notifications
    remembered,  \* _reminder_message_ids, of the reminders there are
    moved        \* the date has been edited

event   == <<date, active, publishing, moved>>
process == <<up, jobs, plannedFor, ran>>
people  == <<role, answer, declining>>
msgs    == <<chat, stray, queued>>
chats   == <<asked, msgs, remembered>>
vars    == <<now, event, process, run, people, chats>>

Roles == {"out", "going", "car"}
Kinds == {"reminder", "cleanup", "attendance", "empty_alert"}
Leads == Intervals \union {0, ConfirmLead, AlertLead}
Idle == [step |-> "idle", lead |-> 0, todo |-> {}, done |-> {}]
Job(kind, d, lead) == [kind |-> kind, lead |-> lead, at |-> d - lead]

(* A reminder: to whom, and how long before the start. *)
Messages == Users \X Intervals
RunMessages == run.done \X {run.lead}
To(messages) == {m[1] : m \in messages}
(* The bound: a step that would leave more strays is not taken. *)
Bounded == Cardinality(stray') + Cardinality(queued') <= MaxStrays

TypeOK ==
    /\ now \in 0..Horizon
    /\ up \in BOOLEAN /\ active \in BOOLEAN /\ publishing \in BOOLEAN /\ moved \in BOOLEAN
    /\ date \in Dates /\ plannedFor \in Dates
    /\ jobs \subseteq [kind : Kinds, lead : Leads, at : Int]
    /\ ran \subseteq [kind : Kinds, lead : Leads, at : Int]
    /\ run \in [step : {"idle", "delete", "send", "record", "ask"}, lead : Leads,
                todo : SUBSET Users, done : SUBSET Users]
    /\ role \in [Users -> Roles]
    /\ answer \in [Users -> {"none", "pending", "confirmed", "declined"}]
    /\ declining \subseteq Users /\ asked \subseteq Users
    /\ chat \subseteq Messages /\ stray \subseteq Users /\ queued \subseteq Messages
    /\ remembered \subseteq Messages

(* The event is in the table, its card in the group. *)
Init ==
    /\ now = 0 /\ up = TRUE /\ active = TRUE /\ publishing = TRUE /\ moved = FALSE
    /\ date \in Dates /\ plannedFor = date /\ jobs = {} /\ ran = {} /\ run = Idle
    /\ role = [u \in Users |-> "out"] /\ answer = [u \in Users |-> "none"]
    /\ declining = {} /\ asked = {} /\ chat = {} /\ stray = {} /\ queued = {}
    /\ remembered = {}

-----------------------------------------------------------------------------
(* What an event that starts at d calls for.  The day before is asked      *)
(* about, not reminded of.                                                 *)
Plan(d) ==
    {Job("reminder", d, i) : i \in Intervals \ {ConfirmLead}}
      \union {Job("cleanup", d, 0), Job("attendance", d, ConfirmLead),
              Job("empty_alert", d, AlertLead)}

(* Fault: a job due this very moment is planned as well. *)
AheadOrNow(j) == j.at >= now

Ahead(j) == j.at > now

(* add_job(replace_existing=True) for what still lies ahead. *)
ScheduleRemindersForEventData(known) ==
    LET ahead == {j \in Plan(date) : active /\ Ahead(j)} IN
    /\ jobs' = {j \in known : \A k \in ahead : <<j.kind, j.lead>> # <<k.kind, k.lead>>} \union ahead
    /\ plannedFor' = date

(* The end of finalize_event_creation; the card may have been refused. *)
ScheduleRemindersForEvent ==
    /\ up /\ publishing
    /\ publishing' = FALSE
    /\ \/ ScheduleRemindersForEventData(jobs)
       \/ UNCHANGED <<jobs, plannedFor>>
    /\ UNCHANGED <<now, up, date, active, moved, ran, run, people, chats>>

(* Fault: the jobs survive in a store of their own. *)
StopKeepsJobs ==
    /\ up /\ up' = FALSE
    /\ run' = Idle /\ publishing' = FALSE /\ declining' = {}
    /\ stray' = stray \union To(chat) /\ chat' = {} /\ remembered' = {}
    /\ UNCHANGED <<now, date, active, moved, jobs, plannedFor, ran, role, answer, asked, queued>>
    /\ Bounded

(* The process ends, in the middle of whatever it does.  The messages stay *)
(* where they are, their ids are gone.                                     *)
Stop ==
    /\ up /\ up' = FALSE
    /\ jobs' = {} /\ run' = Idle /\ publishing' = FALSE /\ declining' = {}
    /\ stray' = stray \union To(chat) /\ chat' = {} /\ remembered' = {}
    /\ UNCHANGED <<now, date, active, moved, plannedFor, ran, role, answer, asked, queued>>
    /\ Bounded

(* restore_jobs. *)
RestoreJobs ==
    /\ ~up /\ up' = TRUE
    /\ ScheduleRemindersForEventData(jobs)
    /\ UNCHANGED <<now, event, ran, run, people, chats>>

(* Time passes; a process that runs starts its jobs when they are due. *)
Tick ==
    /\ now < Horizon /\ run = Idle
    /\ up => \A j \in jobs : j.at # now
    /\ now' = now + 1
    /\ UNCHANGED <<event, process, run, people, chats>>

-----------------------------------------------------------------------------
(* The scheduler starts a job that is due. *)
Start(j) ==
    /\ up /\ run = Idle
    /\ j \in jobs /\ j.at = now
    /\ jobs' = jobs \ {j} /\ ran' = ran \union {j}
    /\ UNCHANGED <<now, event, up, plannedFor, people, chats>>

(* The event or the list may also be unreadable: the run is over. *)
Begin(step, lead, recipients) ==
    \/ run' = Idle
    \/ /\ active /\ recipients # {}
       /\ run' = [Idle EXCEPT !.step = step, !.lead = lead, !.todo = recipients]

(* Fault: the last reminder of a cancelled event is left in the chats. *)
DeleteEventRemindersAtStartActive(j) ==
    /\ j.kind = "cleanup" /\ Start(j)
    /\ run' = IF active THEN [Idle EXCEPT !.step = "delete"] ELSE Idle

(* Fault: the clean-up goes through the reminder. *)
DeleteEventRemindersAtStartRemind(j) ==
    /\ j.kind = "cleanup" /\ Start(j)
    /\ Begin("delete", j.lead, {u \in Users : role[u] = "going"})

(* delete_event_reminders_at_start: whatever became of the event. *)
DeleteEventRemindersAtStart(j) ==
    /\ j.kind = "cleanup" /\ Start(j)
    /\ run' = [Idle EXCEPT !.step = "delete"]

(* Those in the roles of a car get no reminder. *)
SendReminder(j) ==
    /\ j.kind = "reminder" /\ Start(j)
    /\ Begin("delete", j.lead, {u \in Users : role[u] = "going"})

SendAttendancePrompt(j) ==
    /\ j.kind = "attendance" /\ Start(j)
    /\ Begin("record", j.lead, {u \in Users : role[u] # "out"})

(* A message to the organizer, if the list is empty. *)
SendEmptyEventOrganizerAlert(j) ==
    /\ j.kind = "empty_alert" /\ Start(j)
    /\ UNCHANGED run

-----------------------------------------------------------------------------
RunStep(step) == run.step = step /\ UNCHANGED <<now, event, process, people>>

(* Fault: nothing is deleted, the run's own list replaces the ids. *)
DeletePreviousRemindersNone ==
    /\ RunStep("delete")
    /\ run' = IF run.todo = {} THEN Idle ELSE [run EXCEPT !.step = "send"]
    /\ UNCHANGED chats

(* _delete_previous_reminders.  The ids are taken out first.  What Telegram *)
(* refuses to delete is passed over; any other error ends the run: then     *)
(* nobody is reminded.  Both ways a message stays and is not known any more.*)
DeletePreviousReminders ==
    /\ RunStep("delete")
    /\ \E gone \in SUBSET (chat \intersect remembered) :
         stray' = stray \union To((chat \intersect remembered) \ gone)
    /\ chat' = chat \ remembered /\ remembered' = {}
    /\ \/ run' = IF run.todo = {} THEN Idle ELSE [run EXCEPT !.step = "send"]
       \/ remembered # {} /\ run' = Idle
    /\ UNCHANGED <<asked, queued>>
    /\ Bounded

(* send_private_dm: at once, into the queue or not at all; or at once, and *)
(* Telegram answers an error.  Its answer is remembered as an id each time *)
(* (True and False are integers), and is one in the first case only.       *)
RemindOne(u) ==
    /\ RunStep("send") /\ u \in run.todo
    /\ run' = [run EXCEPT !.todo = @ \ {u}, !.done = @ \union {u}]
    /\ \/ chat' = chat \union {<<u, run.lead>>} /\ UNCHANGED <<stray, queued>>
       \/ queued' = queued \union {<<u, run.lead>>} /\ UNCHANGED <<chat, stray>>
       \/ stray' = stray \union {u} /\ UNCHANGED <<chat, queued>>
       \/ UNCHANGED msgs
    /\ Bounded
    /\ UNCHANGED <<asked, remembered>>

RemindEnd ==
    /\ RunStep("send") /\ run.todo = {}
    /\ remembered' = chat \intersect RunMessages
    /\ run' = Idle
    /\ UNCHANGED <<asked, msgs>>

(* The mode of the next recipient, or the queue, cannot be read or         *)
(* written: the run ends, and what it has sent is not remembered.          *)
RemindFails ==
    /\ RunStep("send") /\ run.todo # {}
    /\ stray' = stray \union To(chat \intersect RunMessages) /\ chat' = chat \ RunMessages
    /\ run' = Idle
    /\ UNCHANGED <<asked, queued, remembered>>
    /\ Bounded

(* flush_pending_notifications, after the quiet hours: the message is      *)
(* delivered, and nobody notes its id, or it is lost.                      *)
FlushPending(m) ==
    /\ up /\ m \in queued
    /\ queued' = queued \ {m}
    /\ stray' \in {stray, stray \union {m[1]}}
    /\ UNCHANGED <<now, event, process, run, people, asked, chat, remembered>>

(* record_attendance_prompts: one statement for each. *)
RecordOne(u) ==
    /\ run.step = "record" /\ u \in run.todo
    /\ answer' = [answer EXCEPT ![u] = "pending"]
    /\ run' = LET done == run.done \union {u} IN
              IF done = run.done \union run.todo
              THEN [run EXCEPT !.step = "ask", !.todo = done, !.done = {}]
              ELSE [run EXCEPT !.todo = @ \ {u}, !.done = done]
    /\ UNCHANGED <<now, event, process, role, declining, chats>>

AskOne(u) ==
    /\ RunStep("ask") /\ u \in run.todo
    /\ run' = IF run.todo = {u} THEN Idle ELSE [run EXCEPT !.todo = @ \ {u}]
    /\ asked' \in {asked, asked \union {u}}
    /\ UNCHANGED <<msgs, remembered>>

AskFails ==
    /\ run.step \in {"record", "ask"}
    /\ run' = Idle
    /\ UNCHANGED <<now, event, process, people, chats>>

-----------------------------------------------------------------------------
Handler == up /\ UNCHANGED <<now, process, run, chats>>

(* confirm_attendance.  The button may be pressed again, and there may be  *)
(* older questions in the chat.                                            *)
ConfirmAttendance(u) ==
    /\ Handler
    /\ u \in asked /\ active /\ role[u] # "out"
    /\ answer' = [answer EXCEPT ![u] = "confirmed"]
    /\ UNCHANGED <<event, role, declining>>

(* decline_attendance: the answer, ... *)
DeclineAttendance(u) ==
    /\ Handler
    /\ u \in asked /\ active /\ role[u] # "out"
    /\ answer' = [answer EXCEPT ![u] = "declined"]
    /\ declining' = declining \union {u}
    /\ UNCHANGED <<event, role>>

(* ... the removal, and the promotion of the first in the queue. *)
DeclineRemove(u) ==
    /\ Handler
    /\ u \in declining /\ declining' = declining \ {u}
    /\ \E v \in Users :
         role' = [role EXCEPT ![u] = "out", ![v] = IF v = u \/ @ # "out" THEN @ ELSE "going"]
    /\ UNCHANGED <<event, answer>>

(* Any change of the roster: module Participation. *)
ChangeRoster(u) ==
    /\ Handler
    /\ active
    /\ \E r \in Roles \ {role[u]} : role' = [role EXCEPT ![u] = r]
    /\ UNCHANGED <<event, answer, declining>>

(* The field "datetime" of the edit dialogue, also of a cancelled event. *)
EditDate(d) ==
    /\ Handler
    /\ d # date /\ d >= now
    /\ date' = d /\ moved' = TRUE
    /\ UNCHANGED <<active, publishing, people>>

CancelEvent ==
    /\ Handler
    /\ active /\ active' = FALSE
    /\ role' = [u \in Users |-> "out"]
    /\ UNCHANGED <<date, publishing, moved, answer, declining>>

JobStep ==
    \/ \E j \in jobs : \/ DeleteEventRemindersAtStart(j) \/ SendReminder(j)
                       \/ SendAttendancePrompt(j) \/ SendEmptyEventOrganizerAlert(j)
    \/ DeletePreviousReminders \/ RemindEnd \/ RemindFails \/ AskFails
    \/ \E u \in Users : RemindOne(u) \/ RecordOne(u) \/ AskOne(u)

UserStep ==
    \/ \E u \in Users : \/ ConfirmAttendance(u) \/ DeclineAttendance(u) \/ DeclineRemove(u)
                        \/ ChangeRoster(u)
    \/ \E d \in Dates : EditDate(d)
    \/ CancelEvent

Next ==
    \/ ScheduleRemindersForEvent \/ Stop \/ RestoreJobs \/ Tick
    \/ JobStep \/ UserStep
    \/ \E m \in queued : FlushPending(m)

(* The clock goes on; when it waits for a job, that job goes on. *)
Fairness == WF_vars(Tick \/ JobStep)

Spec == Init /\ [][Next]_vars /\ Fairness

-----------------------------------------------------------------------------
(* Nobody is reminded, asked or alerted twice about the same hour: however *)
(* often the process is restarted, also in that very moment, and the date  *)
(* moved to and fro, no job that has run is planned again.                 *)
NothingTwice == jobs \intersect ran = {}

(* Of the reminders of the event a member's chat shows at most one, the    *)
(* strays excepted: a message whose id was lost with the process, a failed *)
(* run or a refused deletion, or was never known, stays beside the next.   *)
OneReminderEach ==
    \A u \in Users : Cardinality({i \in Intervals : <<u, i>> \in chat}) <= 1

(* "In 3 hours" is written 3 hours before the start: also after restarts    *)
(* and edits, unless the date was edited after this process had planned.    *)
(* A reminder that waits in the queue of the night is read later than that. *)
LeadIsTrue ==
    [][\A m \in (chat' \ chat) \union (queued' \ queued) :
         now + m[2] = date \/ plannedFor # date]_vars

(* An answer is taken back by a new question only if the date was edited:  *)
(* a restart alone never asks again.                                       *)
AnswerKept ==
    [][\A u \in Users :
         answer[u] \in {"confirmed", "declined"} /\ answer'[u] = "pending" => moved]_vars

(* Again and again, and for good once the start has passed, no chat shows a *)
(* reminder of the event, of a cancelled one either; but for the strays,    *)
(* which stay.                                                              *)
ReminderGoes == []<>(chat = {})
=============================================================================
