---------------------------- MODULE RemindersProofs ----------------------------
(***************************************************************************)
(* Proofs about Reminders, for any members, dates, intervals and horizon:  *)
(* the types, and each safety property the run checks.                     *)
(*                                                                         *)
(* All of it rests on when jobs run.  Those planned lie ahead and those    *)
(* that have run do not (Planned, Past), so none is planned again; they    *)
(* belong to the date they were planned for, and while a run is at work    *)
(* the clock stands still and nothing is planned (Asleep), so its lead is  *)
(* true to that date (RunShape).  As long as the date has not been edited  *)
(* the event has one question in its life (OneQuestion): before it has     *)
(* run nobody can have answered it.                                        *)
(***************************************************************************)
EXTENDS Reminders, FiniteSetTheorems, TLAPS

(* A process that is down, or has yet to plan, has no jobs and no run. *)
Asleep == /\ ~up => ~publishing /\ jobs = {} /\ run = Idle
          /\ publishing => jobs = {} /\ run = Idle

Planned ==
    \A j \in jobs : /\ j.at >= now /\ j.at = plannedFor - j.lead
                    /\ j.kind = "reminder" => j.lead \in Intervals

Past == \A j \in ran : j.at <= now

(* A reminder's run is at the hour its lead names; it begins with no       *)
(* reminder sent, and sends when the earlier ones are gone.                *)
RunShape ==
    /\ run.step \in {"delete", "send"} /\ (run.todo # {} \/ run.done # {})
         => run.lead \in Intervals /\ now + run.lead = plannedFor
    /\ run.step = "delete" => run.done = {}
    /\ run.step = "send" => remembered = {}

(* The reminders in chats, but the strays, are those remembered or those of *)
(* the run.                                                                 *)
Traced ==
    chat \subseteq remembered \union (IF run.step = "send" THEN RunMessages ELSE {})

OneHour == \A m, n \in remembered : m[2] = n[2]

Answered(u) == answer[u] \in {"confirmed", "declined"}

OneQuestion ==
    ~moved =>
        LET question == Job("attendance", date, ConfirmLead) IN
        /\ plannedFor = date
        /\ \A j \in jobs \union ran : j.kind = "attendance" => j = question
        /\ question \notin ran => asked = {} /\ run.step \notin {"record", "ask"}
        /\ run.step = "record" => asked = {}
        /\ \A u \in Users : Answered(u) => asked # {}

IInv == /\ TypeOK /\ Asleep /\ Planned /\ Past /\ NothingTwice
        /\ RunShape /\ Traced /\ OneHour /\ OneQuestion

USE DEF Kinds, Roles, msgs, Messages, RunMessages

-----------------------------------------------------------------------------
(* Leads and dates are numbers. *)
LEMMA Numbers == Leads \subseteq Nat /\ Dates \subseteq Nat /\ 0 \in Leads
  BY RemindersAssumption DEF Leads

(* Messages are to members. *)
LEMMA ToMembers ==
    ASSUME NEW S, S \subseteq Users \X Intervals
    PROVE  To(S) \subseteq Users
  BY DEF To

(* What is planned is a job, belongs to the date and carries a lead. *)
LEMMA PlanShape ==
    ASSUME NEW d \in Dates, NEW j \in Plan(d)
    PROVE  /\ j \in [kind : Kinds, lead : Leads, at : Int]
           /\ j.at = d - j.lead
           /\ j.kind = "reminder" => j.lead \in Intervals
           /\ j.kind = "attendance" => j = Job("attendance", d, ConfirmLead)
  <1>1. d \in Int /\ \A i \in Leads : d - i \in Int
    BY RemindersAssumption DEF Leads
  <1>2. /\ ConfirmLead \in Leads /\ AlertLead \in Leads /\ 0 \in Leads
        /\ \A i \in Intervals : i \in Leads
    BY DEF Leads
  <1> QED
    BY <1>1, <1>2 DEF Plan, Job

(* Planning, when no job is known and no run at work: at the publication   *)
(* and at the start of the process.                                        *)
LEMMA SchedulePreserves ==
    ASSUME IInv, jobs = {}, run = Idle, ScheduleRemindersForEventData(jobs),
           up' = TRUE, publishing' = FALSE,
           UNCHANGED <<now, date, active, moved, ran, run, people, chats>>
    PROVE  IInv'
  <1> DEFINE ahead == {j \in Plan(date) : active /\ Ahead(j)}
  <1>1. jobs' = ahead /\ plannedFor' = date
    BY DEF ScheduleRemindersForEventData
  <1>2. \A j \in jobs' : /\ j \in [kind : Kinds, lead : Leads, at : Int]
                         /\ j.at > now /\ j.at = date - j.lead
                         /\ j.kind = "reminder" => j.lead \in Intervals
                         /\ j.kind = "attendance" => j = Job("attendance", date, ConfirmLead)
    BY <1>1, PlanShape DEF Ahead, IInv, TypeOK
  <1>3. TypeOK'
    BY <1>1, <1>2 DEF IInv, TypeOK, people, chats
  <1>4. Asleep' /\ Planned' /\ Past' /\ NothingTwice'
    BY <1>1, <1>2 DEF IInv, TypeOK, Asleep, Planned, Past, NothingTwice
  <1>5. RunShape' /\ Traced' /\ OneHour'
    BY <1>1 DEF IInv, RunShape, Traced, OneHour, Idle, chats
  <1>6. OneQuestion'
    BY <1>1, <1>2 DEF IInv, OneQuestion, Answered, Idle, people, chats
  <1> QED
    BY <1>3, <1>4, <1>5, <1>6 DEF IInv

(* The event is published, the process ends and starts, the clock moves. *)
LEMMA ProcessStepsPreserve ==
    ASSUME IInv, ScheduleRemindersForEvent \/ Stop \/ RestoreJobs \/ Tick
    PROVE  IInv'
  <1>1. CASE ScheduleRemindersForEvent
    <2>1. CASE ScheduleRemindersForEventData(jobs)
      BY <1>1, <2>1, SchedulePreserves
         DEF ScheduleRemindersForEvent, IInv, TypeOK, Asleep
    <2>2. CASE UNCHANGED <<jobs, plannedFor>>
      BY <1>1, <2>2
         DEF ScheduleRemindersForEvent, IInv, TypeOK, Asleep, Planned, Past, NothingTwice,
             RunShape, Traced, OneHour, OneQuestion, Answered, people, chats
    <2> QED
      BY <1>1, <2>1, <2>2 DEF ScheduleRemindersForEvent
  <1>2. CASE Stop
    <2>1. /\ up' = FALSE /\ jobs' = {} /\ run' = Idle /\ publishing' = FALSE /\ declining' = {}
          /\ stray' = stray \union To(chat) /\ chat' = {} /\ remembered' = {}
          /\ UNCHANGED <<now, date, active, moved, plannedFor, ran, role, answer, asked, queued>>
      BY <1>2 DEF Stop
    <2>2. stray' \subseteq Users
      BY <2>1, ToMembers DEF IInv, TypeOK
    <2>3. Idle \in [step : {"idle", "delete", "send", "record", "ask"}, lead : Leads,
                    todo : SUBSET Users, done : SUBSET Users]
      BY DEF Idle, Leads
    <2>4. TypeOK'
      BY <2>1, <2>2, <2>3 DEF IInv, TypeOK
    <2>5. Asleep' /\ Planned' /\ Past' /\ NothingTwice' /\ RunShape' /\ Traced' /\ OneHour'
      BY <2>1 DEF IInv, TypeOK, Asleep, Planned, Past, NothingTwice, RunShape, Traced, OneHour, Idle
    <2>6. OneQuestion'
      BY <2>1 DEF IInv, OneQuestion, Answered, Idle
    <2> QED
      BY <2>4, <2>5, <2>6 DEF IInv
  <1>3. CASE RestoreJobs
    BY <1>3, SchedulePreserves DEF RestoreJobs, event, IInv, TypeOK, Asleep
  <1>4. CASE Tick
    <2>1. /\ now' = now + 1 /\ now' \in 0..Horizon /\ run = Idle /\ run' = Idle
          /\ UNCHANGED <<event, process, people, chats>>
          /\ \A j \in jobs : j.at >= now /\ j.at # now /\ j.at \in Int
      BY <1>4, RemindersAssumption DEF Tick, IInv, TypeOK, Asleep, Planned
    <2>2. \A j \in ran : j.at \in Int /\ j.at <= now
      BY DEF IInv, TypeOK, Past
    <2>3. now \in Int
      BY DEF IInv, TypeOK
    <2>4. jobs' = jobs /\ ran' = ran /\ plannedFor' = plannedFor
      BY <2>1 DEF process
    <2>5. \A j \in jobs : j.at >= now'
      BY <2>1, <2>3
    <2>6. \A j \in ran : j.at <= now'
      BY <2>1, <2>2, <2>3
    <2>7. Planned' /\ Past'
      BY <2>4, <2>5, <2>6 DEF IInv, Planned, Past
    <2>8. TypeOK' /\ Asleep' /\ NothingTwice' /\ RunShape' /\ Traced' /\ OneHour' /\ OneQuestion'
      BY <2>1 DEF IInv, TypeOK, Asleep, NothingTwice, RunShape, Traced, OneHour, OneQuestion,
                  Answered, Idle, event, process, people, chats
    <2> QED
      BY <2>7, <2>8 DEF IInv
  <1> QED
    BY <1>1, <1>2, <1>3, <1>4

(* A job that starts has not run before; the run it opens is at its hour. *)
LEMMA StartsPreserve ==
    ASSUME IInv, NEW j \in jobs,
           \/ DeleteEventRemindersAtStart(j) \/ SendReminder(j)
           \/ SendAttendancePrompt(j) \/ SendEmptyEventOrganizerAlert(j)
    PROVE  IInv'
  <1>1. Start(j)
    BY DEF DeleteEventRemindersAtStart, SendReminder, SendAttendancePrompt,
           SendEmptyEventOrganizerAlert
  <1>2. /\ j \notin ran /\ j \in [kind : Kinds, lead : Leads, at : Int]
        /\ now + j.lead = plannedFor /\ j.at = now /\ ~publishing
        /\ j.kind = "reminder" => j.lead \in Intervals
    <2>1. /\ j \in [kind : Kinds, lead : Leads, at : Int] /\ j \notin ran
          /\ j.at = now /\ j.at = plannedFor - j.lead /\ ~publishing
          /\ j.kind = "reminder" => j.lead \in Intervals
      BY <1>1 DEF Start, IInv, TypeOK, Planned, NothingTwice, Asleep
    <2>2. plannedFor \in Int /\ j.lead \in Int
      <3>1. j.lead \in Leads
        BY <2>1
      <3>2. plannedFor \in Dates
        BY DEF IInv, TypeOK
      <3>3. j.lead \in Nat /\ plannedFor \in Nat
        BY <3>1, <3>2, Numbers, Zenon
      <3> QED
        BY <3>3
    <2> QED
      BY <2>1, <2>2
  <1>3. /\ up /\ run = Idle /\ jobs' = jobs \ {j} /\ ran' = ran \union {j}
        /\ UNCHANGED <<now, event, up, plannedFor, people, chats>>
    BY <1>1 DEF Start
  <1>4. /\ run' \in [step : {"idle", "delete", "send", "record", "ask"}, lead : Leads,
                     todo : SUBSET Users, done : SUBSET Users]
        /\ run'.step \in {"idle", "delete", "record"} /\ run'.done = {}
        /\ run'.step = "delete" /\ run'.todo # {} => j.kind = "reminder" /\ run'.lead = j.lead
        /\ run'.step = "record" => j.kind = "attendance"
    <2>1. 0 \in Leads /\ j.lead \in Leads
      BY <1>2 DEF Leads
    <2>2. CASE DeleteEventRemindersAtStart(j)
      BY <2>1, <2>2 DEF DeleteEventRemindersAtStart, Idle
    <2>3. CASE SendReminder(j)
      <3>1. \/ run' = Idle
            \/ \E R \in SUBSET Users :
                 run' = [step |-> "delete", lead |-> j.lead, todo |-> R, done |-> {}]
        BY <2>3 DEF SendReminder, Begin, Idle
      <3>2. j.kind = "reminder"
        BY <2>3 DEF SendReminder
      <3> QED
        BY <2>1, <3>1, <3>2 DEF Idle
    <2>4. CASE SendAttendancePrompt(j)
      <3>1. \/ run' = Idle
            \/ \E R \in SUBSET Users :
                 run' = [step |-> "record", lead |-> j.lead, todo |-> R, done |-> {}]
        BY <2>4 DEF SendAttendancePrompt, Begin, Idle
      <3>2. j.kind = "attendance"
        BY <2>4 DEF SendAttendancePrompt
      <3> QED
        BY <2>1, <3>1, <3>2 DEF Idle
    <2>5. CASE SendEmptyEventOrganizerAlert(j)
      BY <1>3, <2>1, <2>5 DEF SendEmptyEventOrganizerAlert, Idle
    <2> QED
      BY <2>2, <2>3, <2>4, <2>5
  <1>5. TypeOK'
    BY <1>2, <1>3, <1>4 DEF IInv, TypeOK, event, people, chats
  <1>6. Asleep' /\ Planned' /\ Past' /\ NothingTwice'
    BY <1>2, <1>3, <1>4 DEF IInv, TypeOK, Asleep, Planned, Past, NothingTwice, event
  <1>7. RunShape' /\ Traced' /\ OneHour'
    BY <1>2, <1>3, <1>4 DEF IInv, RunShape, Traced, OneHour, Idle, chats
  <1>8. OneQuestion'
    BY <1>2, <1>3, <1>4 DEF IInv, OneQuestion, Answered, event, people, chats, Idle
  <1> QED
    BY <1>5, <1>6, <1>7, <1>8 DEF IInv

(* The steps of a run: the clock and the jobs stand still. *)
LEMMA RunStepsPreserve ==
    ASSUME IInv,
           \/ DeletePreviousReminders \/ RemindEnd \/ RemindFails \/ AskFails
           \/ \E m \in queued : FlushPending(m)
           \/ \E u \in Users : RemindOne(u) \/ RecordOne(u) \/ AskOne(u)
    PROVE  IInv'
  <1> USE DEF IInv, TypeOK, Asleep, Planned, Past, NothingTwice, RunShape, Traced, OneHour,
              OneQuestion, Answered, Idle, event, process, people, chats, RunStep
  <1>0. 0 \in Leads
    BY DEF Leads
  <1>1. CASE DeletePreviousReminders
    <2>1. stray' \subseteq Users
      <3>1. PICK gone : stray' = stray \union To((chat \intersect remembered) \ gone)
        BY <1>1 DEF DeletePreviousReminders
      <3>2. (chat \intersect remembered) \ gone \subseteq Users \X Intervals
        OBVIOUS
      <3> QED
        BY <3>1, <3>2, ToMembers
    <2>2. /\ run.step = "delete" /\ UNCHANGED <<now, event, process, people, asked, queued>>
          /\ chat' = chat \ remembered /\ remembered' = {}
          /\ \/ run' = Idle
             \/ run.todo # {} /\ run' = [run EXCEPT !.step = "send"]
      BY <1>1 DEF DeletePreviousReminders
    <2>3. chat' = {}
      BY <2>2
    <2> QED
      BY <1>0, <2>1, <2>2, <2>3
  <1>2. CASE RemindEnd
    BY <1>0, <1>2 DEF RemindEnd
  <1>3. CASE RemindFails
    <2>1. stray' \subseteq Users
      BY <1>3, ToMembers DEF RemindFails
    <2> QED
      BY <1>0, <1>3, <2>1 DEF RemindFails
  <1>4. CASE AskFails
    BY <1>0, <1>4 DEF AskFails
  <1>5. ASSUME NEW u \in Users, RemindOne(u) PROVE IInv'
    <2>1. /\ run.step = "send" /\ run.lead \in Intervals /\ now + run.lead = plannedFor
          /\ run' = [run EXCEPT !.todo = @ \ {u}, !.done = @ \union {u}]
          /\ chat' \subseteq chat \union {<<u, run.lead>>}
          /\ queued' \subseteq queued \union {<<u, run.lead>>}
          /\ stray' \subseteq stray \union {u}
          /\ UNCHANGED <<now, event, process, people, asked, remembered>>
      BY <1>5 DEF RemindOne
    <2>2. /\ run'.step = "send" /\ run'.lead = run.lead
          /\ run'.done = run.done \union {u} /\ run' # Idle
          /\ run' \in [step : {"idle", "delete", "send", "record", "ask"}, lead : Leads,
                      todo : SUBSET Users, done : SUBSET Users]
      BY <2>1
    <2>3. TypeOK'
      BY <2>1, <2>2
    <2>4. Traced'
      BY <2>1, <2>2
    <2>5. Asleep' /\ Planned' /\ Past' /\ NothingTwice' /\ RunShape' /\ OneHour'
      BY <2>1, <2>2
    <2>6. OneQuestion'
      BY <2>1, <2>2
    <2> QED
      BY <2>3, <2>4, <2>5, <2>6
  <1>6. ASSUME NEW u \in Users, RecordOne(u) PROVE IInv'
    <2>1. /\ run.step = "record" /\ run'.step \in {"record", "ask"} /\ run' # Idle
          /\ run' \in [step : {"idle", "delete", "send", "record", "ask"}, lead : Leads,
                      todo : SUBSET Users, done : SUBSET Users]
          /\ answer' = [answer EXCEPT ![u] = "pending"]
          /\ UNCHANGED <<now, event, process, role, declining, chats>>
      <3>1. run' = [run EXCEPT !.step = "ask", !.todo = run.done \union {u}, !.done = {}]
            \/ run' = [run EXCEPT !.todo = @ \ {u}, !.done = run.done \union {u}]
        BY <1>6 DEF RecordOne
      <3>2. run.step = "record"
        BY <1>6 DEF RecordOne
      <3>3. run' \in [step : {"idle", "delete", "send", "record", "ask"}, lead : Leads,
                      todo : SUBSET Users, done : SUBSET Users]
        <4>1. CASE run' = [run EXCEPT !.step = "ask", !.todo = run.done \union {u}, !.done = {}]
          BY <4>1
        <4>2. CASE run' = [run EXCEPT !.todo = @ \ {u}, !.done = run.done \union {u}]
          BY <4>2
        <4> QED
          BY <3>1, <4>1, <4>2
      <3>4. run'.step \in {"record", "ask"} /\ run' # Idle
        <4>1. run'.step \in {"record", "ask"}
          BY <3>1, <3>2
        <4> QED
          BY <4>1
      <3> QED
        BY <1>6, <3>2, <3>3, <3>4 DEF RecordOne
    <2>2. TypeOK'
      BY <2>1
    <2>3. Asleep' /\ Planned' /\ Past' /\ NothingTwice' /\ RunShape' /\ Traced' /\ OneHour'
      BY <2>1
    <2>4. OneQuestion'
      BY <2>1
    <2> QED
      BY <2>2, <2>3, <2>4
  <1>7. ASSUME NEW u \in Users, AskOne(u) PROVE IInv'
    BY <1>0, <1>7 DEF AskOne
  <1>8. ASSUME NEW m \in queued, FlushPending(m) PROVE IInv'
    BY <1>0, <1>8 DEF FlushPending
  <1> QED
    BY <1>1, <1>2, <1>3, <1>4, <1>5, <1>6, <1>7, <1>8

(* Members and organizers touch neither the clock nor the process nor a run. *)
LEMMA UserStepsPreserve ==
    ASSUME IInv, UserStep
    PROVE  IInv'
  <1>1. /\ up /\ UNCHANGED <<now, process, run, chats>>
        /\ UNCHANGED publishing
    BY DEF UserStep, ConfirmAttendance, DeclineAttendance, DeclineRemove, ChangeRoster, EditDate,
           CancelEvent, Handler, event
  <1>2. /\ date' \in Dates /\ active' \in BOOLEAN /\ moved' \in BOOLEAN
        /\ role' \in [Users -> Roles] /\ declining' \subseteq Users
        /\ answer' \in [Users -> {"none", "pending", "confirmed", "declined"}]
    BY DEF UserStep, ConfirmAttendance, DeclineAttendance, DeclineRemove, ChangeRoster, EditDate,
           CancelEvent, event, people, IInv, TypeOK
  <1>3. /\ ~moved' => date' = date /\ ~moved
        /\ \A u \in Users : Answered(u)' => Answered(u) \/ asked # {}
    BY DEF UserStep, ConfirmAttendance, DeclineAttendance, DeclineRemove, ChangeRoster, EditDate,
           CancelEvent, event, people, IInv, TypeOK, Answered
  <1>4. TypeOK'
    BY <1>1, <1>2 DEF IInv, TypeOK, process, chats
  <1>5. /\ Asleep' /\ Planned' /\ Past' /\ NothingTwice' /\ RunShape' /\ Traced' /\ OneHour'
    BY <1>1 DEF IInv, Asleep, Planned, Past, NothingTwice, RunShape, Traced, OneHour, process,
                chats
  <1>6. OneQuestion'
    BY <1>1, <1>3 DEF IInv, OneQuestion, process, chats
  <1> QED
    BY <1>4, <1>5, <1>6 DEF IInv

(* The invariant holds initially and every step keeps it. *)
THEOREM InvariantHolds == Spec => []IInv
  <1> USE DEF IInv, TypeOK, Asleep, Planned, Past, NothingTwice, RunShape, Traced, OneHour,
              OneQuestion, Answered, Idle
  <1>1. Init => IInv
    <2>1. Init => TypeOK
      <3>1. Init => now \in 0..Horizon
        BY RemindersAssumption DEF Init
      <3>2. Idle \in [step : {"idle", "delete", "send", "record", "ask"}, lead : Leads,
                      todo : SUBSET Users, done : SUBSET Users]
        BY Numbers
      <3> QED
        BY <3>1, <3>2 DEF Init
    <2>2. Init => Asleep /\ Planned /\ Past /\ NothingTwice /\ RunShape /\ Traced /\ OneHour
      BY DEF Init
    <2>3. Init => OneQuestion
      BY DEF Init
    <2> QED
      BY <2>1, <2>2, <2>3
  <1>2. IInv /\ Next => IInv'
    BY ProcessStepsPreserve, StartsPreserve, RunStepsPreserve, UserStepsPreserve
       DEF Next, JobStep
  <1>3. IInv /\ UNCHANGED vars => IInv'
    BY DEF vars, event, process, people, chats
  <1> QED
    BY <1>1, <1>2, <1>3, PTL DEF Spec

-----------------------------------------------------------------------------
(* The variables of Reminders keep their types; in particular a reminder is *)
(* sent to a member and for one of the intervals only.                       *)
THEOREM TypeCorrect == Spec => []TypeOK
  BY InvariantHolds, PTL DEF IInv

(* No job that has run is ever planned again, however often the process is   *)
(* restarted and the date edited.                                            *)
THEOREM NothingIsDoneTwice == Spec => []NothingTwice
  BY InvariantHolds, PTL DEF IInv

(* Of the reminders that have not gone astray a chat shows at most one: all  *)
(* of them are among the ids remembered or sent by the run at work, the      *)
(* run sends only after the ids remembered are deleted or given up, and      *)
(* what one run sends names one hour.                                        *)
THEOREM OneReminderInAChat == Spec => []OneReminderEach
  <1>1. ASSUME IInv, NEW u \in Users
        PROVE  Cardinality({i \in Intervals : <<u, i>> \in chat}) <= 1
    <2> DEFINE S == {i \in Intervals : <<u, i>> \in chat}
    <2>1. \A i, k \in S : i = k
      BY <1>1 DEF IInv, Traced, RunShape, OneHour
    <2>2. CASE S = {}
      <3>1. Cardinality(S) = 0
        BY <2>2, FS_EmptySet
      <3> QED
        BY <3>1
    <2>3. CASE S # {}
      <3>1. PICK i \in S : S = {i}
        BY <2>1, <2>3
      <3>2. Cardinality(S) = 1
        BY <3>1, FS_Singleton
      <3> QED
        BY <3>2
    <2> QED
      BY <2>2, <2>3
  <1>2. IInv => OneReminderEach
    BY <1>1, Zenon DEF OneReminderEach
  <1> QED
    BY <1>2, InvariantHolds, PTL

(* A reminder that says "in n hours" is sent n hours before the date the     *)
(* process planned for.                                                      *)
THEOREM LeadIsAlwaysTrue == Spec => LeadIsTrue
  <1> DEFINE Told == \A m \in (chat' \ chat) \union (queued' \ queued) : now + m[2] = date \/ plannedFor # date
  <1>1. IInv /\ Next => Told
    <2> SUFFICES ASSUME IInv, Next, NEW m \in (chat' \ chat) \union (queued' \ queued)
                 PROVE  now + m[2] = plannedFor
      OBVIOUS
    <2>1. PICK u \in Users : RemindOne(u)
      BY DEF Next, ScheduleRemindersForEvent, Stop, RestoreJobs, Tick, JobStep, Start,
             DeleteEventRemindersAtStart, SendReminder, SendAttendancePrompt,
             SendEmptyEventOrganizerAlert, DeletePreviousReminders, RemindEnd, RemindFails,
             FlushPending, AskFails, RecordOne, AskOne, UserStep, ConfirmAttendance, DeclineAttendance,
             DeclineRemove, ChangeRoster, EditDate, CancelEvent, Handler, chats
    <2>2. m[2] = run.lead /\ run.step = "send" /\ run.todo # {}
      BY <2>1 DEF RemindOne, RunStep
    <2> QED
      BY <2>2 DEF IInv, RunShape
  <1>2. UNCHANGED vars => Told
    BY DEF vars, chats
  <1>3. IInv /\ [Next]_vars => [Told]_vars
    BY <1>1, <1>2
  <1> QED
    BY <1>3, InvariantHolds, PTL DEF Spec, LeadIsTrue

(* An answer given is asked for again only after the date was edited:        *)
(* record_attendance_prompts, which resets it, runs once for a date.         *)
THEOREM AnswerIsKept == Spec => AnswerKept
  <1> DEFINE Kept == \A u \in Users :
               answer[u] \in {"confirmed", "declined"} /\ answer'[u] = "pending" => moved
  <1>1. IInv /\ Next => Kept
    <2> SUFFICES ASSUME IInv, Next, NEW u \in Users,
                        answer[u] \in {"confirmed", "declined"}, answer'[u] = "pending", ~moved
                 PROVE  FALSE
      BY DEF IInv, TypeOK
    <2>1. run.step = "record"
      BY DEF Next, ScheduleRemindersForEvent, Stop, RestoreJobs, Tick, JobStep, Start,
             DeleteEventRemindersAtStart, SendReminder, SendAttendancePrompt,
             SendEmptyEventOrganizerAlert, DeletePreviousReminders, RemindEnd, RemindFails,
             FlushPending, AskFails, RemindOne, RecordOne, AskOne, RunStep, UserStep, ConfirmAttendance,
             DeclineAttendance, DeclineRemove, ChangeRoster, EditDate, CancelEvent, people,
             IInv, TypeOK
    <2> QED
      BY <2>1 DEF IInv, OneQuestion, Answered
  <1>2. UNCHANGED vars => Kept
    BY DEF vars, people
  <1>3. IInv /\ [Next]_vars => [Kept]_vars
    BY <1>1, <1>2
  <1> QED
    BY <1>3, InvariantHolds, PTL DEF Spec, AnswerKept
=============================================================================
