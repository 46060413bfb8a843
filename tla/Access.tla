--------------------------------- MODULE Access ---------------------------------
(***************************************************************************)
(* Who may use the bot, and how often: the tables pending_users,           *)
(* approved_members and user_command_usage_daily, the middleware every     *)
(* private update passes (bot/middleware/command_access.py), the           *)
(* onboarding handlers and the owner's buttons.                            *)
(*                                                                         *)
(* aiogram handles updates concurrently, also those of one person, and     *)
(* every statement and every question to Telegram is a point where another *)
(* handler runs: a step here ends where the code awaits the next one.      *)
(* Slots bounds how many handlers are at work at a time.                   *)
(*                                                                         *)
(* Users are ordinary persons.  The owner passes the middleware unlimited, *)
(* an admin with a limit of his own; what they do here is to other         *)
(* people's rows, their own are left out, and so are answers and notices.  *)
(*                                                                         *)
(* A definition marked "Fault" is no part of the model: it is a plausible  *)
(* bug of the definition that follows it.                                  *)
(***************************************************************************)
EXTENDS Integers, FiniteSets

CONSTANTS
    Users,          \* persons who write to the bot
    Nobody,         \* no person
    Slots,          \* bound: handlers at work at a time
    MemberLimit,    \* MEMBER_DAILY_COMMAND_LIMIT
    OutsiderLimit,  \* OUTSIDER_START_DAILY_LIMIT
    MaxCount        \* bound: the highest number an admin resets

ASSUME AccessAssumption ==
    /\ Nobody \notin Users
    /\ MemberLimit \in Nat /\ OutsiderLimit \in Nat /\ MaxCount \in Nat

VARIABLES
    pending,    \* pending_users: who has a request
    approved,   \* approved_members.intro_status, "none" without a row
    inGroup,    \* the members of the Telegram group
    count,      \* user_command_usage_daily of today
    job,        \* the handlers at work
    admission,  \* how a person stands: "invited": approved by the owner, not come
                \* in yet; "member": come in since; "raced": evicted while a
                \* handler was about to write his row anew; "lost": evicted
                \* while invited; "none"
    crossed,    \* whose row was written while another handler was about to
                \* write what it had read
    ran,        \* the limited commands that ran today, since the last reset,
                \* and 0 once the counting of two has overlapped
    overlapped  \* whose counting of two commands has overlapped today

tables == <<pending, approved>>
usage  == <<count, ran, overlapped>>
ghosts == <<admission, crossed>>
vars   == <<pending, approved, inGroup, count, job, admission, crossed, ran, overlapped>>

Intro == {"pending", "completed"}

Idle == [pc |-> "idle", user |-> Nobody, act |-> "none", member |-> FALSE, read |-> 0,
         old |-> FALSE, intro |-> "none", todo |-> {}, victim |-> Nobody]

PCs == {"idle", "group", "evict", "limit", "increment", "store", "in_group", "approved",
        "ensure", "ensure_pending", "request", "intro", "upsert", "card_group",
        "approve_insert", "approve_delete", "toggle", "purge", "purge_delete"}

Acts == {"none", "start", "command", "button", "wizard", "rules", "card", "approve", "toggle", "purge"}

TypeOK ==
    /\ pending \subseteq Users
    /\ approved \in [Users -> Intro \union {"none"}]
    /\ inGroup \subseteq Users
    /\ count \in [Users -> Nat]
    /\ job \in [Slots -> [pc : PCs, user : Users \union {Nobody}, act : Acts,
                          member : BOOLEAN, read : Nat, old : BOOLEAN,
                          intro : Intro \union {"none"}, todo : SUBSET Users,
                          victim : Users \union {Nobody}]]
    /\ admission \in [Users -> {"none", "invited", "member", "raced", "lost"}]
    /\ crossed \subseteq Users
    /\ ran \in [Users -> Nat]
    /\ overlapped \subseteq Users

Init ==
    /\ pending = {} /\ approved = [u \in Users |-> "none"]
    /\ inGroup \in SUBSET Users
    /\ count = [u \in Users |-> 0]
    /\ job = [s \in Slots |-> Idle]
    /\ admission = [u \in Users |-> "none"] /\ crossed = {}
    /\ ran = [u \in Users |-> 0] /\ overlapped = {}

-----------------------------------------------------------------------------
IsApproved(u) == approved[u] # "none"

Begin(s, u, act, pc) ==
    /\ job[s] = Idle
    /\ job' = [job EXCEPT ![s] = [Idle EXCEPT !.pc = pc, !.user = u, !.act = act]]

Goto(s, pc) == job' = [job EXCEPT ![s].pc = pc]
Done(s) == job' = [job EXCEPT ![s] = Idle]
At(s, pc) == job[s].pc = pc

(* The handlers that have read u's row and will write it anew. *)
Rewriters(u) == {t \in Slots : job[t].user = u /\ job[t].pc \in {"intro", "upsert"}}
Rewriting(s, u) == Rewriters(u) \ {s} # {}

(* The row of u is written by slot s. *)
Write(s, u, intro) ==
    /\ approved' = [approved EXCEPT ![u] = intro]
    /\ crossed' = IF Rewriting(s, u) THEN crossed \union {u} ELSE crossed \ {u}

(* delete_approved_member. *)
DeleteApprovedMember(s, u) ==
    /\ Write(s, u, "none")
    /\ admission' = [admission EXCEPT ![u] =
         CASE Rewriting(s, u) -> "raced"
           [] ~Rewriting(s, u) /\ @ \in {"invited", "lost"} -> "lost"
           [] OTHER -> "none"]

-----------------------------------------------------------------------------
(* _sync_membership: the row is read, ... *)
Receive(s, u, act) ==
    /\ job[s] = Idle
    /\ job' = [job EXCEPT ![s] = [Idle EXCEPT !.pc = "group", !.user = u, !.act = act,
                                              !.member = IsApproved(u)]]
    /\ UNCHANGED <<tables, inGroup, usage, ghosts>>

(* Fault: the row alone decides. *)
AskGroupNever(s) ==
    /\ At(s, "group")
    /\ Goto(s, "limit")
    /\ UNCHANGED <<tables, inGroup, usage, ghosts>>

(* ... the group is asked: a refusal of Telegram's counts as an answer that  *)
(* the person is outside, any other error ends the update, ...              *)
AskGroup(s) ==
    /\ At(s, "group")
    /\ \/ job[s].member /\ Goto(s, "evict")
       \/ (job[s].member => job[s].user \in inGroup) /\ Goto(s, "limit")
       \/ Done(s)
    /\ UNCHANGED <<tables, inGroup, usage, ghosts>>

(* ... and the row of a person taken to be outside is deleted. *)
Evict(s) ==
    /\ At(s, "evict")
    /\ DeleteApprovedMember(s, job[s].user)
    /\ job' = [job EXCEPT ![s].pc = "limit", ![s].member = FALSE]
    /\ UNCHANGED <<pending, inGroup, usage>>

DailyLimit(s) ==
    IF job[s].member THEN MemberLimit ELSE OutsiderLimit

(* A "command" is one not open to everybody, as /start is: it is refused to *)
(* a person without the row, and to a member when it is the owner's or an   *)
(* admin's.  A button is refused to nobody.                                 *)
RefuseCommand(s) ==
    /\ At(s, "limit") /\ job[s].act = "command"
    /\ Done(s)
    /\ UNCHANGED <<tables, inGroup, usage, ghosts>>

Open(s) == job[s].act = "command" => job[s].member

(* Buttons of a running wizard are free. *)
Unlimited(s) == job[s].act = "wizard"

Counting(u) == \E s \in Slots : job[s].user = u /\ job[s].pc \in {"increment", "store"}

(* Fault: one command too many passes. *)
ApplyLimitOneMore(s) ==
    /\ At(s, "limit") /\ Open(s)
    /\ IF Unlimited(s) \/ count[job[s].user] > DailyLimit(s)
       THEN Done(s) /\ UNCHANGED overlapped
       ELSE /\ Goto(s, "increment")
            /\ overlapped' = overlapped \union {u \in {job[s].user} : Counting(u)}
    /\ UNCHANGED <<tables, inGroup, count, ran, ghosts>>

(* _apply_limit: the number is compared, ... *)
ApplyLimit(s) ==
    /\ At(s, "limit") /\ Open(s)
    /\ IF Unlimited(s) \/ count[job[s].user] >= DailyLimit(s)
       THEN Done(s) /\ UNCHANGED overlapped
       ELSE /\ Goto(s, "increment")
            /\ overlapped' = overlapped \union {u \in {job[s].user} : Counting(u)}
    /\ UNCHANGED <<tables, inGroup, count, ran, ghosts>>

(* ... read again, ... *)
IncrementRead(s) ==
    /\ At(s, "increment")
    /\ job' = [job EXCEPT ![s].pc = "store", ![s].read = count[job[s].user]]
    /\ UNCHANGED <<tables, inGroup, usage, ghosts>>

(* ... and written one higher; the command's handler follows.  The day was *)
(* noted when the number was compared.                                     *)
IncrementWrite(s) ==
    LET u == job[s].user IN
    /\ At(s, "store")
    /\ IF job[s].old
       THEN UNCHANGED <<count, ran>>
       ELSE /\ count' = [count EXCEPT ![u] = job[s].read + 1]
            /\ ran' = [ran EXCEPT ![u] = IF u \in overlapped THEN 0 ELSE @ + 1]
    /\ IF job[s].act = "start"
       THEN job' = [job EXCEPT ![s] = [Idle EXCEPT !.pc = "in_group", !.user = u,
                                              !.act = "start"]]
       ELSE Done(s)
    /\ UNCHANGED <<tables, inGroup, overlapped, ghosts>>

(* /reset_user_limit. *)
ResetUserLimit(u) ==
    /\ count[u] \in 1..MaxCount
    /\ count' = [count EXCEPT ![u] = 0]
    /\ ran' = [ran EXCEPT ![u] = 0]
    /\ overlapped' = IF Counting(u) THEN overlapped \union {u} ELSE overlapped \ {u}
    /\ UNCHANGED <<tables, inGroup, job, ghosts>>

(* Midnight in TIMEZONE: today's rows are yet to be written. *)
NewDay ==
    /\ count' = [u \in Users |-> 0] /\ ran' = [u \in Users |-> 0] /\ overlapped' = {}
    /\ job' = [s \in Slots |->
                 IF job[s].pc \in {"increment", "store"} THEN [job[s] EXCEPT !.old = TRUE] ELSE job[s]]
    /\ UNCHANGED <<tables, inGroup, ghosts>>

-----------------------------------------------------------------------------
(* rules_ack, which the middleware lets through. *)
RulesAck(s, u) ==
    /\ Begin(s, u, "rules", "in_group")
    /\ UNCHANGED <<tables, inGroup, usage, ghosts>>

(* A button of an event's card in the group, pressed by somebody without a *)
(* row (approved_member_callback_only).                                    *)
CardButton(s, u) ==
    /\ ~IsApproved(u)
    /\ Begin(s, u, "card", "card_group")
    /\ UNCHANGED <<tables, inGroup, usage, ghosts>>

(* Here and below, whatever goes wrong with the question to Telegram is     *)
(* taken for the answer that the person is outside the group.               *)
CardInGroup(s) ==
    /\ At(s, "card_group")
    /\ \/ job[s].user \in inGroup /\ Goto(s, "ensure")
       \/ Done(s)
    /\ UNCHANGED <<tables, inGroup, usage, ghosts>>

(* cmd_start and rules_ack ask whether the person is in the group. *)
InGroup(s) ==
    /\ At(s, "in_group")
    /\ \/ job[s].user \in inGroup /\ Goto(s, "approved")
       \/ job[s].act = "rules" /\ Goto(s, "request")
       \/ job[s].act # "rules" /\ Done(s)
    /\ UNCHANGED <<tables, inGroup, usage, ghosts>>

(* Fault: whoever is in the group counts as approved. *)
IsMemberApprovedByGroup(s) ==
    /\ At(s, "approved")
    /\ Goto(s, "intro")
    /\ UNCHANGED <<tables, inGroup, usage, ghosts>>

IsMemberApproved(s) ==
    /\ At(s, "approved")
    /\ Goto(s, IF IsApproved(job[s].user) THEN "intro" ELSE "ensure")
    /\ UNCHANGED <<tables, inGroup, usage, ghosts>>

(* ensure_group_member_access_request: three statements. *)
EnsureNotApproved(s) ==
    /\ At(s, "ensure")
    /\ IF IsApproved(job[s].user) THEN Done(s) ELSE Goto(s, "ensure_pending")
    /\ UNCHANGED <<tables, inGroup, usage, ghosts>>

EnsureNotPending(s) ==
    /\ At(s, "ensure_pending")
    /\ IF job[s].user \in pending THEN Done(s) ELSE Goto(s, "request")
    /\ UNCHANGED <<tables, inGroup, usage, ghosts>>

AddPendingUser(s) ==
    /\ At(s, "request")
    /\ pending' = pending \union {job[s].user}
    /\ Done(s)
    /\ UNCHANGED <<approved, inGroup, usage, ghosts>>

(* Fault: /start begins the introduction anew. *)
GetApprovedMemberAnew(s) ==
    /\ At(s, "intro")
    /\ job' = [job EXCEPT ![s].pc = "upsert", ![s].intro = "pending"]
    /\ UNCHANGED <<tables, inGroup, usage, ghosts>>

(* get_approved_member: /start takes a missing row for a completed         *)
(* introduction, the rules' button for a pending one.                      *)
GetApprovedMember(s) ==
    /\ At(s, "intro")
    /\ LET intro == approved[job[s].user] IN
       job' = [job EXCEPT ![s].pc = "upsert",
                          ![s].intro = IF intro \in Intro THEN intro
                                       ELSE IF job[s].act = "start" THEN "completed"
                                       ELSE "pending"]
    /\ UNCHANGED <<tables, inGroup, usage, ghosts>>

UpsertApprovedMember(s) ==
    /\ At(s, "upsert")
    /\ Write(s, job[s].user, job[s].intro)
    /\ Done(s)
    /\ UNCHANGED <<pending, inGroup, usage, admission>>

-----------------------------------------------------------------------------
(* approve_pending_user: read, insert, delete; then the invitation. *)
ApproveRead(s, u) ==
    /\ u \in pending
    /\ Begin(s, u, "approve", "approve_insert")
    /\ UNCHANGED <<tables, inGroup, usage, ghosts>>

(* Fault: the request's status goes into the column of the introduction. *)
ApproveInsertStatus(s) ==
    LET u == job[s].user IN
    /\ At(s, "approve_insert")
    /\ Write(s, u, "approved")
    /\ admission' = [admission EXCEPT ![u] = IF u \in inGroup THEN "member" ELSE "invited"]
    /\ Goto(s, "approve_delete")
    /\ UNCHANGED <<pending, inGroup, usage>>

ApproveInsert(s) ==
    LET u == job[s].user IN
    /\ At(s, "approve_insert")
    /\ Write(s, u, "pending")
    /\ admission' = [admission EXCEPT ![u] = IF u \in inGroup THEN "member" ELSE "invited"]
    /\ Goto(s, "approve_delete")
    /\ UNCHANGED <<pending, inGroup, usage>>

ApproveDelete(s) ==
    LET u == job[s].user IN
    /\ At(s, "approve_delete")
    /\ pending' = pending \ {u}
    /\ Done(s)
    /\ UNCHANGED <<approved, inGroup, usage, ghosts>>

Reject(u) ==
    /\ u \in pending
    /\ pending' = pending \ {u}
    /\ UNCHANGED <<approved, inGroup, job, usage, ghosts>>

IntroDone(u) ==
    /\ IsApproved(u)
    /\ approved' = [approved EXCEPT ![u] = "completed"]
    /\ crossed' = IF Rewriters(u) # {} THEN crossed \union {u} ELSE crossed \ {u}
    /\ UNCHANGED <<pending, inGroup, job, usage, admission>>

IntroToggleRead(s, u) ==
    /\ job[s] = Idle
    /\ IsApproved(u)
    /\ job' = [job EXCEPT ![s] = [Idle EXCEPT !.pc = "toggle", !.user = u, !.act = "toggle",
                !.intro = IF approved[u] = "completed" THEN "pending" ELSE "completed"]]
    /\ UNCHANGED <<tables, inGroup, usage, ghosts>>

(* update_intro_status: no row, no update. *)
IntroToggleWrite(s) ==
    LET u == job[s].user IN
    /\ At(s, "toggle")
    /\ IF IsApproved(u) THEN Write(s, u, job[s].intro) ELSE UNCHANGED <<approved, crossed>>
    /\ Done(s)
    /\ UNCHANGED <<pending, inGroup, usage, admission>>

(* /pending_intro of the owner and /sync_members of an admin go through    *)
(* the rows they have read and delete those of persons outside the group,  *)
(* or taken to be so.                                                      *)
Purge(s) ==
    /\ job[s] = Idle
    /\ job' = [job EXCEPT ![s] = [Idle EXCEPT !.pc = "purge", !.act = "purge",
                                              !.todo = {u \in Users : IsApproved(u)}]]
    /\ UNCHANGED <<tables, inGroup, usage, ghosts>>

PurgeAskGroup(s) ==
    /\ At(s, "purge")
    /\ \E u \in job[s].todo :
         \/ u \in inGroup /\ job' = [job EXCEPT ![s].todo = @ \ {u}]
         \/ job' = [job EXCEPT ![s].pc = "purge_delete", ![s].todo = @ \ {u}, ![s].victim = u]
    /\ UNCHANGED <<tables, inGroup, usage, ghosts>>

PurgeDelete(s) ==
    /\ At(s, "purge_delete")
    /\ DeleteApprovedMember(s, job[s].victim)
    /\ job' = [job EXCEPT ![s].pc = "purge", ![s].victim = Nobody]
    /\ UNCHANGED <<pending, inGroup, usage>>

PurgeEnd(s) ==
    /\ At(s, "purge")
    /\ job[s].todo = {}
    /\ Done(s)
    /\ UNCHANGED <<tables, inGroup, usage, ghosts>>

-----------------------------------------------------------------------------
(* Telegram's side: people come, by the invitation or otherwise, and go. *)
Join(u) ==
    /\ u \notin inGroup
    /\ inGroup' = inGroup \union {u}
    /\ admission' = [admission EXCEPT ![u] = IF @ = "invited" THEN "member" ELSE @]
    /\ UNCHANGED <<tables, job, usage, crossed>>

Leave(u) ==
    /\ u \in inGroup
    /\ inGroup' = inGroup \ {u}
    /\ UNCHANGED <<tables, job, usage, ghosts>>

(* The process restarts: the tables stay, the handlers at work do not. *)
Restart ==
    /\ job' = [s \in Slots |-> Idle]
    /\ UNCHANGED <<tables, inGroup, usage, ghosts>>

UserNext(u) ==
    \/ Reject(u) \/ IntroDone(u) \/ ResetUserLimit(u) \/ Join(u) \/ Leave(u)
    \/ \E s \in Slots :
         \/ \E act \in {"start", "command", "button", "wizard"} : Receive(s, u, act)
         \/ RulesAck(s, u) \/ CardButton(s, u) \/ ApproveRead(s, u) \/ IntroToggleRead(s, u)

StepNext(s) ==
    \/ AskGroup(s) \/ Evict(s) \/ RefuseCommand(s) \/ ApplyLimit(s) \/ IncrementRead(s) \/ IncrementWrite(s)
    \/ CardInGroup(s) \/ InGroup(s) \/ IsMemberApproved(s)
    \/ EnsureNotApproved(s) \/ EnsureNotPending(s) \/ AddPendingUser(s)
    \/ GetApprovedMember(s) \/ UpsertApprovedMember(s)
    \/ ApproveInsert(s) \/ ApproveDelete(s) \/ IntroToggleWrite(s)
    \/ Purge(s) \/ PurgeAskGroup(s) \/ PurgeDelete(s) \/ PurgeEnd(s)

Next ==
    \/ \E u \in Users : UserNext(u)
    \/ \E s \in Slots : StepNext(s)
    \/ NewDay \/ Restart

Spec == Init /\ [][Next]_vars

-----------------------------------------------------------------------------
(* Nobody but the owner lets a person in, and a person evicted, for having *)
(* left or because Telegram did not answer, needs a new approval: whoever  *)
(* has a row was approved and not evicted since, or was evicted while a    *)
(* handler of his was about to write his row anew.                         *)
AdmittedByOwner ==
    \A u \in Users : IsApproved(u) => admission[u] \in {"invited", "member", "raced"}

(* /start and the rules' button write back the introduction they have read *)
(* unless another write to the row fell in between: neither undoes nor     *)
(* grants what only the owner may.                                         *)
RewriteKeepsIntro ==
    \A s \in Slots :
        At(s, "upsert") /\ job[s].user \notin crossed => job[s].intro = approved[job[s].user]

(* The limit of the day holds for whoever's commands are not counted at    *)
(* the same time, across evictions, changes of role, resets and midnight.  *)
LimitHoldsAlone ==
    \A u \in Users \ overlapped :
        ran[u] <= IF MemberLimit > OutsiderLimit THEN MemberLimit ELSE OutsiderLimit

(* A person who stays away from the group and goes on pressing buttons or  *)
(* sending commands is without a row again and again: no request, approval *)
(* or late rewrite keeps him in for good.                                  *)
AwayLosesRow ==
    \A u \in Users :
        /\ <>[](u \notin inGroup)
        /\ []<><<\E s \in Slots : /\ RefuseCommand(s) \/ ApplyLimit(s)
                                  /\ job[s].user = u>>_vars
        => []<>~IsApproved(u)

(* README, "one-time invitation -> member of the group and of              *)
(* approved_members": an approved person keeps his row until he has come   *)
(* into the group.                                                         *)
InvitedStaysApproved == \A u \in Users : admission[u] # "lost"
=============================================================================
