---------------------------- MODULE Notifications ----------------------------
(***************************************************************************)
(* Private messages (bot/utils/notifications.py), the queue that holds     *)
(* them back in the quiet hours (table pending_notifications,              *)
(* bot/db/pending_notifications.py), the two scheduler jobs that empty it  *)
(* and the user's notification mode (bot/db/notification_settings.py).     *)
(*                                                                         *)
(* A message is a number; each is sent by one call of send_private_dm.     *)
(* Every caller names the kind and leaves the options about quiet hours at *)
(* their defaults (they are respected, a message of the night is queued).  *)
(* Calls and jobs are asyncio tasks that yield at every SQL statement and  *)
(* at every request to Telegram.  Telegram may refuse a request (the bot   *)
(* is blocked), fail it, or fail it after it has delivered the message.    *)
(*                                                                         *)
(* A definition marked "Fault" is no part of the model: it is a plausible  *)
(* bug of the definition that follows it.                                  *)
(***************************************************************************)
EXTENDS Integers, FiniteSets

CONSTANTS
    Users,        \* the addressees
    NumNotes,     \* bound: how many messages are sent in all
    Batch,        \* limit of flush_pending_notifications (100 in the code)
    Hours,        \* bound: hours of a day (24)
    QuietStart,   \* QUIET_HOURS_START
    QuietEnd,     \* QUIET_HOURS_END
    MaxFaults     \* bound: how often the process dies or a statement fails

Notes == 1..NumNotes
Jobs == {"every_10_minutes", "quiet_end"}

ASSUME NotificationsAssumption ==
    /\ IsFiniteSet(Users) /\ Users # {}
    /\ NumNotes \in Nat /\ Batch \in Nat \ {0} /\ Hours \in Nat \ {0}
    /\ QuietStart \in 0..(Hours - 1) /\ QuietEnd \in 0..(Hours - 1)
    /\ MaxFaults \in Nat

VARIABLES
    hour,    \* the hour of the clock in TIMEZONE
    mode,    \* mode[u]: users.notification_settings
    call,    \* call[n]: where the call of send_private_dm for message n is
    status,  \* status[n]: status of n's row; "none" when there is no row
    created, \* created[n]: the stamp of n's row (created_at), as a rank; 0: none yet
    flush,   \* flush[j]: where job j is, the rows it has claimed, the row it is at
    got,     \* got[n]: how many copies of n the addressee has received
    faults   \* how often the process has died or a statement has failed

vars == <<hour, mode, call, status, created, flush, got, faults>>

Modes == {"all", "mine", "off"}
Kinds == {"broadcast", "personal"}
Idle == [pc |-> "idle", claimed |-> {}, at |-> 0]

(* is_quiet_hours *)
IsQuiet(h) == IF QuietStart < QuietEnd THEN QuietStart <= h /\ h < QuietEnd
                                       ELSE h >= QuietStart \/ h < QuietEnd

(* should_deliver_notification *)
ShouldDeliver(m, kind) == m = "all" \/ (m = "mine" /\ kind = "personal")

(* A request to Telegram: what the caller learns and what the addressee got. *)
Request(n, answer) ==
    \/ answer = "ok" /\ got' = [got EXCEPT ![n] = @ + 1]
    \/ answer = "error" /\ \E c \in {0, 1} : got' = [got EXCEPT ![n] = @ + c]

-----------------------------------------------------------------------------
(* send_private_dm: the mode is read, then the clock, then the message is *)
(* sent or put in the queue.                                              *)

SendBegin(n, u, kind) ==
    /\ call[n] = "new"
    /\ call' = [call EXCEPT ![n] = IF ShouldDeliver(mode[u], kind) THEN "clock" ELSE "returned"]
    /\ UNCHANGED <<hour, mode, status, created, flush, got, faults>>

SendClock(n) ==
    /\ call[n] = "clock"
    /\ call' = [call EXCEPT ![n] = IF IsQuiet(hour) THEN "enqueue" ELSE "send"]
    /\ UNCHANGED <<hour, mode, status, created, flush, got, faults>>

(* enqueue_pending_notification draws an id and reads the time; the row that *)
(* bears them is inserted later, and a younger one may be there before it.   *)
SendStamp(n) ==
    /\ call[n] = "enqueue"
    /\ created' = [created EXCEPT ![n] = 1 + Cardinality({m \in Notes : created[m] # 0})]
    /\ call' = [call EXCEPT ![n] = "insert"]
    /\ UNCHANGED <<hour, mode, status, flush, got, faults>>

SendEnqueue(n) ==
    /\ call[n] = "insert"
    /\ status' = [status EXCEPT ![n] = "pending"]
    /\ call' = [call EXCEPT ![n] = "returned"]
    /\ UNCHANGED <<hour, mode, created, flush, got, faults>>

(* Whatever goes wrong, send_private_dm returns False and does not try again. *)
SendNow(n) ==
    /\ call[n] = "send"
    /\ \E answer \in {"ok", "error"} : Request(n, answer)
    /\ call' = [call EXCEPT ![n] = "returned"]
    /\ UNCHANGED <<hour, mode, status, created, flush, faults>>

-----------------------------------------------------------------------------
(* flush_pending_notifications, run by two jobs; the scheduler does not     *)
(* start a job that is still running (max_instances = 1), but knows nothing *)
(* of the other one.                                                        *)

Due(j) == j = "every_10_minutes" \/ hour = QuietEnd

MayFlush == ~IsQuiet(hour)

FlushTick(j) ==
    /\ flush[j].pc = "idle" /\ Due(j) /\ MayFlush
    /\ flush' = [flush EXCEPT ![j].pc = "claim"]
    /\ UNCHANGED <<hour, mode, call, status, created, got, faults>>

Pending == {n \in Notes : status[n] = "pending"}

(* Fault: ORDER BY created_at DESC. *)
OldestLatest(k) ==
    {n \in Pending : Cardinality({m \in Pending : created[m] > created[n]}) < k}

(* ORDER BY created_at, id LIMIT *)
Oldest(k) ==
    {n \in Pending : Cardinality({m \in Pending : created[m] < created[n]}) < k}

(* Fault: the rows are read, and not marked. *)
ClaimedUnmarked(batch) == status

ClaimedRows(batch) == [n \in Notes |-> IF n \in batch THEN "sending" ELSE status[n]]

(* One UPDATE ... FROM (SELECT ... FOR UPDATE SKIP LOCKED) RETURNING: the rows *)
(* come back in no particular order.                                          *)
Claim(j) ==
    /\ flush[j].pc = "claim"
    /\ LET batch == Oldest(Batch)
       IN  /\ status' = ClaimedRows(batch)
           /\ flush' = [flush EXCEPT ![j] = IF batch = {} THEN Idle
                              ELSE [pc |-> "send", claimed |-> batch, at |-> 0]]
    /\ UNCHANGED <<hour, mode, call, created, got, faults>>

(* The clock is not asked again between two messages. *)
FlushSend(j) ==
    /\ flush[j].pc = "send"
    /\ \E n \in flush[j].claimed, answer \in {"ok", "error"} :
         /\ Request(n, answer)
         /\ flush' = [flush EXCEPT ![j] =
              [pc |-> IF answer = "ok" THEN "mark_sent" ELSE "mark_failed",
               claimed |-> flush[j].claimed, at |-> n]]
    /\ UNCHANGED <<hour, mode, call, status, created, faults>>

(* The next message of the batch, or the end of the job. *)
Advance(j) ==
    LET rest == flush[j].claimed \ {flush[j].at}
    IN  flush' = [flush EXCEPT ![j] = IF rest = {} THEN Idle
                          ELSE [pc |-> "send", claimed |-> rest, at |-> 0]]

(* Fault: a message Telegram refused keeps its status. *)
MarkSentOnly(j) == IF flush[j].pc = "mark_sent" THEN "sent" ELSE status[flush[j].at]

(* Fault: the except branch marks the row as sent too. *)
MarkAlwaysSent(j) == "sent"

MarkAs(j) == IF flush[j].pc = "mark_sent" THEN "sent" ELSE "failed"

FlushMark(j) ==
    /\ flush[j].pc \in {"mark_sent", "mark_failed"}
    /\ status' = [status EXCEPT ![flush[j].at] = MarkAs(j)]
    /\ Advance(j)
    /\ UNCHANGED <<hour, mode, call, created, got, faults>>

-----------------------------------------------------------------------------
(* set_user_notification_settings *)
SetMode(u, m) ==
    /\ mode' = [mode EXCEPT ![u] = m]
    /\ UNCHANGED <<hour, call, status, created, flush, got, faults>>

(* cleanup_old_pending_notifications *)
Cleanup ==
    /\ \E old \in SUBSET {n \in Notes : status[n] \in {"sent", "failed"}} :
         /\ old # {}
         /\ status' = [n \in Notes |-> IF n \in old THEN "none" ELSE status[n]]
    /\ UNCHANGED <<hour, mode, call, created, flush, got, faults>>

(* Fault: midnight is forgotten. *)
NextHourEndless == hour + 1

NextHour == IF hour + 1 = Hours THEN 0 ELSE hour + 1

ClockTick ==
    /\ hour' = NextHour
    /\ UNCHANGED <<mode, call, status, created, flush, got, faults>>

(* A statement fails.  A mark_sent that fails is followed by mark_failed; one *)
(* that fails in an except branch leaves the job, and with it the batch.      *)
DatabaseFails ==
    /\ faults < MaxFaults /\ faults' = faults + 1
    /\ \/ \E n \in Notes : /\ call[n] \in {"new", "enqueue", "insert"}
                           /\ call' = [call EXCEPT ![n] = "returned"]
                           /\ UNCHANGED flush
       \/ \E j \in Jobs : /\ \/ /\ flush[j].pc = "mark_sent"
                                /\ flush' = [flush EXCEPT ![j].pc = "mark_failed"]
                             \/ /\ flush[j].pc \in {"claim", "mark_failed"}
                                /\ flush' = [flush EXCEPT ![j] = Idle]
                          /\ UNCHANGED call
    /\ UNCHANGED <<hour, mode, status, created, got>>

(* The process dies: the tables stay. *)
Crash ==
    /\ faults < MaxFaults /\ faults' = faults + 1
    /\ call' = [n \in Notes |-> IF call[n] = "new" THEN "new" ELSE "returned"]
    /\ flush' = [j \in Jobs |-> Idle]
    /\ call' # call \/ flush' # flush
    /\ UNCHANGED <<hour, mode, status, created, got>>

-----------------------------------------------------------------------------
Init ==
    /\ hour \in 0..(Hours - 1)
    /\ mode = [u \in Users |-> "all"]
    /\ call = [n \in Notes |-> "new"]
    /\ status = [n \in Notes |-> "none"]
    /\ created = [n \in Notes |-> 0]
    /\ flush = [j \in Jobs |-> Idle]
    /\ got = [n \in Notes |-> 0]
    /\ faults = 0

CallStep(n) == SendClock(n) \/ SendStamp(n) \/ SendEnqueue(n) \/ SendNow(n)
JobStep(j) == Claim(j) \/ FlushSend(j) \/ FlushMark(j)

Next ==
    \/ \E n \in Notes : CallStep(n) \/ \E u \in Users, kind \in Kinds : SendBegin(n, u, kind)
    \/ \E j \in Jobs : FlushTick(j) \/ JobStep(j)
    \/ \E u \in Users, m \in Modes : SetMode(u, m)
    \/ Cleanup
    \/ ClockTick
    \/ DatabaseFails
    \/ Crash

Spec == Init /\ [][Next]_vars

(* asyncio runs every task that is ready; the clock goes on; the jobs are     *)
(* cron jobs, and an hour outside the quiet hours is longer than their period *)
(* of ten minutes: a job that is often due outside the quiet hours starts.    *)
FairSpec ==
    /\ Spec
    /\ \A n \in Notes : WF_vars(CallStep(n))
    /\ \A j \in Jobs : WF_vars(JobStep(j)) /\ SF_vars(FlushTick(j))
    /\ WF_vars(ClockTick)

-----------------------------------------------------------------------------
(* The variables have their types; in particular the clock stays within the day. *)
TypeOK ==
    /\ hour \in 0..(Hours - 1)
    /\ mode \in [Users -> Modes]
    /\ call \in [Notes -> {"new", "clock", "enqueue", "insert", "send", "returned"}]
    /\ status \in [Notes -> {"none", "pending", "sending", "sent", "failed"}]
    /\ created \in [Notes -> Nat]
    /\ flush \in [Jobs -> [pc : {"idle", "claim", "send", "mark_sent", "mark_failed"},
                           claimed : SUBSET Notes, at : Notes \union {0}]]
    /\ got \in [Notes -> Nat]
    /\ faults \in 0..MaxFaults

(* Two jobs that overlap, a crash, a failing statement: no message is ever   *)
(* delivered twice.                                                          *)
DeliveredOnce == \A n \in Notes : got[n] <= 1

(* What makes it so: a claimed row belongs to one job, and the rows of a     *)
(* batch are marked "sending" as long as the job holds them.                 *)
ClaimsAreExclusive ==
    /\ \A j \in Jobs : \A n \in flush[j].claimed : status[n] = "sending"
    /\ \A j, k \in Jobs : j # k => flush[j].claimed \intersect flush[k].claimed = {}

(* A row marked "sent" stands for a message that was delivered, whichever    *)
(* statement failed in between.                                              *)
SentWasDelivered == \A n \in Notes : status[n] = "sent" => got[n] = 1

(* A message queued at night is dealt with in the end, in whatever batch and *)
(* by whichever job: sent, or marked as failed; unless something breaks.     *)
QueuedIsSettled ==
    \A n \in Notes : status[n] = "pending" ~> (status[n] \in {"sent", "failed"} \/ faults > 0)

(* To its addressee the bot is a mailbox, whatever jobs and calls overlap    *)
(* and wherever the process dies: a message leaves the queue in turn, to be  *)
(* delivered once or lost, and is never lost while it waits.  A job holds a  *)
(* row it has claimed until it has tried to send it.                         *)
InHand(n) == \E j \in Jobs : n \in flush[j].claimed /\ (flush[j].pc = "send" \/ flush[j].at # n)
MB == INSTANCE Mailbox WITH
        place <- [n \in Notes |-> IF call[n] = "new" THEN "unsent"
                                  ELSE IF call[n] # "returned" THEN "accepted"
                                  ELSE IF status[n] = "pending" THEN "box"
                                  ELSE IF InHand(n) THEN "hand" ELSE "gone"],
        since <- created,
        copies <- got
ImplementsMailbox == MB!Spec

(* README, "Тихие часы": a message of the night is put in the queue and sent *)
(* after the quiet hours.  One restart is enough to break it: a row that a   *)
(* job had claimed stays "sending" and no job looks at it again.             *)
NightMailArrives ==
    \A n \in Notes : status[n] = "pending" ~> status[n] \in {"sent", "failed"}

=============================================================================
