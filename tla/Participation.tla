---------------------------- MODULE Participation ----------------------------
(***************************************************************************)
(* The roster of one event: the rows of table participants for that event, *)
(* its participant_limit and status, and the handlers that change them     *)
(* (bot/handlers/participation.py, the manual commands of my_events.py and *)
(* the limit edit), over the SQL layer bot/db/participants.py.             *)
(*                                                                         *)
(* aiogram runs every update in an asyncio task of its own and every       *)
(* helper of bot/db sends each SQL statement on its own pooled connection, *)
(* with no transaction around two of them.  So a handler is a task that    *)
(* yields at every statement, and one action is the code between two       *)
(* statements.  Reads before a handler's first write are taken at one      *)
(* instant (each later statement reads the database again), except where   *)
(* a value read is used by a later statement: then it is kept in job[t].   *)
(*                                                                         *)
(* PostgreSQL runs each statement at READ COMMITTED: the subqueries of a   *)
(* capacity-checked INSERT or UPDATE read the snapshot taken when the      *)
(* statement starts, the row is written later.  Those two statements are   *)
(* therefore two steps, snapshot and write.                                *)
(*                                                                         *)
(* joined_at is read from the clock just before the statement that stores  *)
(* it; here the clock is read with the statement.                          *)
(*                                                                         *)
(* A definition marked "Fault" is no part of the model: it is a plausible  *)
(* bug of the definition that follows it, and is used to show that the     *)
(* properties would notice that bug.                                       *)
(***************************************************************************)
EXTENDS Integers, FiniteSets

CONSTANTS
    Users,      \* the approved members who press buttons or are named by an organiser
    Tasks,      \* asyncio tasks: as many handlers may be in flight at once
    NoUser,     \* "no driver", "no promoted user" (0 / None in the code)
    Limits,     \* values participant_limit may take; <= 0 means unlimited
    MaxLimit,   \* bound: no limit of Limits exceeds it
    MaxGuests,  \* bound: the largest number of guests anybody types
    MaxSeats,   \* bound: the largest number of car seats anybody types
    CarpoolOn,  \* events.carpool_enabled
    Handlers    \* the entry points that are exercised (see HandlerNames)

HandlerNames == {"join", "reserve", "decline", "guests", "seek", "driver", "passenger",
                 "manual_add", "manual_carpool", "limit", "delete", "restart"}

ASSUME ParticipationAssumption ==
    /\ IsFiniteSet(Users)
    /\ IsFiniteSet(Tasks) /\ Tasks # {}
    /\ NoUser \notin Users
    /\ MaxLimit \in Nat /\ Limits \subseteq Int
    /\ \A l \in Limits : l <= MaxLimit
    /\ MaxGuests \in Nat
    /\ MaxSeats \in Nat
    /\ CarpoolOn \in BOOLEAN
    /\ Handlers \subseteq HandlerNames

VARIABLES
    active,   \* events.status = 'active'
    limit,    \* events.participant_limit
    row,      \* row[u]: u's row of participants; status "none" when there is no row
    before,   \* before[u]: the waiting users whose joined_at is earlier than u's
    offered,  \* history: the most seats a user has offered since nobody rode with him
    fsm,      \* fsm[u]: the FSM state of user u (one per user: FSMStrategy.GLOBAL_USER)
    offers,   \* offers[u]: drivers on the choose_driver keyboards in u's chat
    job       \* job[t]: the handler task t runs, and the values it has read

event == <<active, limit>>
table == <<row, before, offered>>
chat  == <<fsm, offers>>
vars  == <<active, limit, row, before, offered, fsm, offers, job>>

MainStatuses == {"going", "driver", "passenger", "ride_seeker"}
Statuses == MainStatuses \union {"waitlist", "none"}
Fresh(s) == [status |-> s, guests |-> 0, seats |-> 0, driver |-> NoUser]
NoRow == Fresh("none")
Rows == [status : Statuses, guests : 0..MaxGuests, seats : 0..MaxSeats,
         driver : Users \union {NoUser}]

Labels == {"idle", "insert_going", "insert_seeker", "write_going", "write_seeker",
           "insert_reserve", "promote_self", "promote_write", "demote_riders",
           "demote_write", "pick_check", "pick_select", "pick_write", "notify",
           "remove_riders", "remove_write", "guest_check", "guest_write",
           "seek_on", "seek_off", "drive_write", "drive_manual", "ensure_driver",
           "ride_write", "ride_manual", "ensure_rider", "cancel_mark", "cancel_clear"}

Handler(p, u, v, n, o) == [pc |-> p, who |-> u, tgt |-> v, num |-> n, old |-> o]
Idle == Handler("idle", NoUser, NoUser, 0, 0)
Jobs == [pc : Labels, who : Users \union {NoUser}, tgt : Users \union {NoUser},
         num : 0..(MaxGuests + MaxSeats), old : 0..MaxGuests]

-----------------------------------------------------------------------------
Main == {u \in Users : row[u].status \in MainStatuses}
Waitlist == {u \in Users : row[u].status = "waitlist"}
Riders(d) == {u \in Users : row[u].driver = d}
Passengers(d) == {u \in Riders(d) : row[u].status = "passenger"}

(* The seats of the main list: number 0 is the member, the others his guests. *)
SeatsTaken == {s \in Users \X (0..MaxGuests) :
                 s[1] \in Main /\ s[2] <= row[s[1]].guests}
Occupied == Cardinality(SeatsTaken)

(* Fault: the INSERT loses its WHERE. *)
HasRoomUnchecked == TRUE

(* Fault: guests are not counted. *)
HasRoomHeads == limit <= 0 \/ Cardinality(Main) < limit

(* The capacity condition inside the two capacity-checked statements. *)
HasRoom == limit <= 0 \/ Occupied < limit

(* Fault: the last place is never given away. *)
PickFullEarly == limit > 0 /\ Occupied + 1 >= limit

(* The capacity condition of move_from_waitlist. *)
PickFull == limit > 0 /\ Occupied >= limit

(* Fault: ORDER BY joined_at DESC. *)
FirstOfNewest(waiting) == {v \in waiting : \A w \in waiting \ {v} : w \in before[v]}

(* ORDER BY joined_at LIMIT 1 *)
FirstOf(waiting) == {v \in waiting : before[v] \intersect waiting = {}}

(* Fault: the driver does not occupy a seat of his own car. *)
FreeSeatsAll(d) ==
    LET free == row[d].seats - Cardinality(Passengers(d))
    IN  IF row[d].status = "driver" /\ free > 0 THEN free ELSE 0

(* get_driver_free_seats: the driver counts as one of car_seats. *)
FreeSeats(d) ==
    LET free == row[d].seats - Cardinality(Passengers(d)) - 1
    IN  IF row[d].status = "driver" /\ free > 0 THEN free ELSE 0

(* The rows that UPDATEs and upserts leave behind where row r was. *)
AsPromoted(r) == [status |-> "going", guests |-> 0, seats |-> r.seats, driver |-> r.driver]
AsReleased(r) == [status |-> "going", guests |-> r.guests, seats |-> 0, driver |-> NoUser]
AsSeeker(r, s) == [status |-> s, guests |-> r.guests, seats |-> r.seats, driver |-> r.driver]

(* Fault: the guests typed are added to those brought so far. *)
AsHostAdds(r, g) == [status |-> r.status, guests |-> r.guests + g, seats |-> r.seats,
                     driver |-> r.driver]

AsHost(r, g) == [status |-> r.status, guests |-> g, seats |-> r.seats, driver |-> r.driver]
AsPassenger(r, d) == [status |-> "passenger", guests |-> r.guests, seats |-> 0, driver |-> d]

(* Fault: the upsert of a driver leaves passenger_of as it was. *)
AsDriverStale(r, n) == [status |-> "driver", guests |-> r.guests, seats |-> n, driver |-> r.driver]

AsDriver(r, n) == [status |-> "driver", guests |-> r.guests, seats |-> n, driver |-> NoUser]

(* Writing rows keeps the joined_at order of the waiting users: those in   *)
(* tail get a new joined_at, the latest of all.  An empty car offers what  *)
(* its driver's row says, any other the most it said since.                *)
Store(rows, tail) ==
    /\ row' = rows
    /\ before' = [u \in Users |->
         LET waiting == {v \in Users : rows[v].status = "waitlist"}
         IN  IF u \notin waiting THEN {}
             ELSE IF u \in tail THEN waiting \ {u}
             ELSE (before[u] \intersect waiting) \ tail]
    /\ offered' = [d \in Users |->
         LET empty == \A u \in Users : rows[u].status = "passenger" => rows[u].driver # d
         IN  IF empty \/ rows[d].seats > offered[d] THEN rows[d].seats ELSE offered[d]]

Exists(u) == row[u].status # "none"

Start(t, h) == job[t].pc = "idle" /\ h \in Handlers
At(t, p) == job[t].pc = p
Run(t, j) == job' = [job EXCEPT ![t] = j]
Begin(t, p, u) == Run(t, Handler(p, u, NoUser, 0, 0))
Aim(t, p, v) == Run(t, Handler(p, job[t].who, v, job[t].num, job[t].old))
Goto(t, p) == Aim(t, p, job[t].tgt)
Done(t) == Run(t, Idle)

-----------------------------------------------------------------------------
(* "В путь!": join_event *)

JoinClick(t, u) ==
    /\ Start(t, "join") /\ active /\ u \notin Main
    /\ \/ u \in Waitlist /\ Begin(t, "promote_self", u)
       \/ /\ u \notin Waitlist
          /\ limit = 0 \/ Occupied < limit
          /\ Begin(t, "insert_going", u)
    /\ UNCHANGED <<event, table, chat>>

(* add_participant for a main status: the WHERE of INSERT ... SELECT *)
InsertSnapshot(t) ==
    /\ \/ At(t, "insert_going")  /\ HasRoom /\ Goto(t, "write_going")
       \/ At(t, "insert_seeker") /\ HasRoom /\ Goto(t, "write_seeker")
       \/ job[t].pc \in {"insert_going", "insert_seeker"} /\ ~HasRoom /\ Done(t)
    /\ UNCHANGED <<event, table, chat>>

(* ... and its write: ON CONFLICT (event_id, user_id) DO NOTHING *)
InsertWrite(t) ==
    LET u == job[t].who
        s == IF At(t, "write_going") THEN "going" ELSE "ride_seeker"
    IN  /\ job[t].pc \in {"write_going", "write_seeker"}
        /\ \/ ~Exists(u) /\ Store([row EXCEPT ![u] = Fresh(s)], {})
           \/ Exists(u) /\ UNCHANGED table
        /\ Done(t)
        /\ UNCHANGED <<event, chat>>

(* promote_user_from_waitlist: the WHERE of the UPDATE, then the write, which *)
(* looks at the row's status again.                                           *)
PromoteSnapshot(t) ==
    LET u == job[t].who
    IN  /\ At(t, "promote_self")
        /\ IF u \in Waitlist /\ HasRoom THEN Goto(t, "promote_write") ELSE Done(t)
        /\ UNCHANGED <<event, table, chat>>

PromoteWrite(t) ==
    LET u == job[t].who
    IN  /\ At(t, "promote_write")
        /\ \/ /\ u \in Waitlist
              /\ Store([row EXCEPT ![u] = Fresh("going")], {})
           \/ u \notin Waitlist /\ UNCHANGED table
        /\ Done(t)
        /\ UNCHANGED <<event, chat>>

-----------------------------------------------------------------------------
(* "В резерв": waitlist_event *)

(* Fault: the card is not asked whether its event still takes place. *)
ReserveClickAnyTime(t, u) ==
    /\ Start(t, "reserve") /\ u \notin Waitlist
    /\ \/ row[u].status = "driver" /\ Begin(t, "demote_riders", u)
       \/ u \in Main /\ row[u].status # "driver" /\ Begin(t, "demote_write", u)
       \/ u \notin Main /\ Begin(t, "insert_reserve", u)
    /\ UNCHANGED <<event, table, chat>>

ReserveClick(t, u) ==
    /\ Start(t, "reserve") /\ active /\ u \notin Waitlist
    /\ \/ row[u].status = "driver" /\ Begin(t, "demote_riders", u)
       \/ u \in Main /\ row[u].status # "driver" /\ Begin(t, "demote_write", u)
       \/ u \notin Main /\ Begin(t, "insert_reserve", u)
    /\ UNCHANGED <<event, table, chat>>

InsertReserve(t) ==
    LET u == job[t].who
    IN  /\ At(t, "insert_reserve")
        /\ \/ ~Exists(u) /\ Store([row EXCEPT ![u] = Fresh("waitlist")], {u})
           \/ Exists(u) /\ UNCHANGED table
        /\ Done(t)
        /\ UNCHANGED <<event, chat>>

(* move_user_to_waitlist: a driver's passengers stay, as "going" ... *)
DemoteRiders(t) ==
    LET d == job[t].who
    IN  /\ At(t, "demote_riders")
        /\ Store([u \in Users |-> IF u \in Riders(d) THEN AsReleased(row[u]) ELSE row[u]], {})
        /\ Goto(t, "demote_write")
        /\ UNCHANGED <<event, chat>>

(* ... and the member goes to the end of the queue; move_from_waitlist, *)
(* called next, must not promote him (exclude_user_id, kept in tgt).    *)
DemoteWrite(t) ==
    LET u == job[t].who
    IN  /\ At(t, "demote_write")
        /\ \/ Exists(u) /\ Store([row EXCEPT ![u] = Fresh("waitlist")], {u})
           \/ ~Exists(u) /\ UNCHANGED table
        /\ Aim(t, "pick_check", u)
        /\ UNCHANGED <<event, chat>>

-----------------------------------------------------------------------------
(* "Снять запись": decline_event, which does not look at the event's status. *)
(* decline_attendance ("не приду") takes the same steps for a main member of *)
(* an active event; the answer it also stores is no part of the roster.      *)

DeclineClick(t, u) ==
    /\ Start(t, "decline") /\ Exists(u)
    /\ Begin(t, IF row[u].status = "driver" THEN "remove_riders" ELSE "remove_write", u)
    /\ UNCHANGED <<event, table, chat>>

RemoveRiders(t) ==
    LET d == job[t].who
    IN  /\ At(t, "remove_riders")
        /\ Store([u \in Users |-> IF u \in Riders(d) THEN NoRow ELSE row[u]], {})
        /\ Goto(t, "remove_write")
        /\ UNCHANGED <<event, chat>>

RemoveWrite(t) ==
    /\ At(t, "remove_write")
    /\ Store([row EXCEPT ![job[t].who] = NoRow], {})
    /\ Goto(t, "pick_check")
    /\ UNCHANGED <<event, chat>>

-----------------------------------------------------------------------------
(* move_from_waitlist: three statements with nothing to tie them together *)

PickCheck(t) ==
    /\ At(t, "pick_check")
    /\ IF PickFull THEN Done(t) ELSE Goto(t, "pick_select")
    /\ UNCHANGED <<event, table, chat>>

PickSelect(t) ==
    LET waiting == Waitlist \ {job[t].tgt}
    IN  /\ At(t, "pick_select")
        /\ \/ waiting = {} /\ Done(t)
           \/ \E v \in FirstOf(waiting) : Aim(t, "pick_write", v)
        /\ UNCHANGED <<event, table, chat>>

(* The UPDATE names the user only: it does not ask that he is still waiting, *)
(* nor that a place is still free, and its row count is not looked at.       *)
PickWrite(t) ==
    LET v == job[t].tgt
    IN  /\ At(t, "pick_write")
        /\ \/ /\ Exists(v)
              /\ Store([row EXCEPT ![v] = AsPromoted(row[v])], {})
           \/ ~Exists(v) /\ UNCHANGED table
        /\ Goto(t, "notify")
        /\ UNCHANGED <<event, chat>>

(* send_private_dm(waitlist_promoted), then the card is redrawn *)
NotifyPromoted(t) ==
    /\ At(t, "notify") /\ Done(t)
    /\ UNCHANGED <<event, table, chat>>

-----------------------------------------------------------------------------
(* A question goes to the private chat; a user who blocked the bot gets none *)
(* and his dialogue is dropped (TelegramForbiddenError).                     *)
AskInPrivate(u, state) == \E s \in {state, "none"} : fsm' = [fsm EXCEPT ![u] = s]

(* "Гости": ask_guest_count opens the dialogue, process_guest_count ends it *)

GuestsClick(t, u) ==
    /\ Start(t, "guests") /\ active /\ u \in Main
    /\ AskInPrivate(u, "guests")
    /\ UNCHANGED <<event, table, offers, job>>

GuestsMessage(t, u, g) ==
    /\ Start(t, "guests") /\ fsm[u] = "guests"
    /\ \/ /\ active /\ u \in Main
          /\ Run(t, Handler("guest_check", u, NoUser, g, row[u].guests))
          /\ UNCHANGED fsm
       \/ /\ ~(active /\ u \in Main)
          /\ fsm' = [fsm EXCEPT ![u] = "none"]
          /\ UNCHANGED job
    /\ UNCHANGED <<event, table, offers>>

(* set_participant_guest_count: the limit is asked only if the number changes *)
GuestsFit(g, old) == limit <= 0 \/ g = old \/ Occupied - old + g <= limit

GuestCheck(t) ==
    /\ At(t, "guest_check")
    /\ IF GuestsFit(job[t].num, job[t].old) THEN Goto(t, "guest_write") ELSE Done(t)
    /\ UNCHANGED <<event, table, chat>>

GuestWrite(t) ==
    LET u == job[t].who
    IN  /\ At(t, "guest_write")
        /\ \/ Exists(u) /\ Store([row EXCEPT ![u] = AsHost(row[u], job[t].num)], {})
           \/ ~Exists(u) /\ UNCHANGED table
        /\ fsm' = [fsm EXCEPT ![u] = "none"]
        /\ Done(t)
        /\ UNCHANGED <<event, offers>>

-----------------------------------------------------------------------------
(* Carpool: seek_ride_toggle, become_driver / process_car_seats, *)
(* become_passenger / choose_driver                              *)

SeekClick(t, u) ==
    /\ Start(t, "seek") /\ active /\ CarpoolOn
    /\ \/ row[u].status = "going" /\ Begin(t, "seek_on", u)
       \/ row[u].status = "ride_seeker" /\ Begin(t, "seek_off", u)
       \/ u \notin Main /\ HasRoom /\ Begin(t, "insert_seeker", u)
    /\ UNCHANGED <<event, table, chat>>

SeekWrite(t) ==
    LET u == job[t].who
        s == IF At(t, "seek_on") THEN "ride_seeker" ELSE "going"
    IN  /\ job[t].pc \in {"seek_on", "seek_off"}
        /\ \/ Exists(u) /\ Store([row EXCEPT ![u] = AsSeeker(row[u], s)], {})
           \/ ~Exists(u) /\ UNCHANGED table
        /\ Done(t)
        /\ UNCHANGED <<event, chat>>

(* The carpool buttons are on the card only when the event has carpool on. *)
DriverClick(t, u) ==
    /\ Start(t, "driver") /\ active /\ CarpoolOn
    /\ row[u].status \notin {"driver", "passenger"}
    /\ AskInPrivate(u, "seats")
    /\ UNCHANGED <<event, table, offers, job>>

(* process_car_seats reads neither the event's status nor its limit *)
SeatsMessage(t, u, n) ==
    /\ Start(t, "driver") /\ fsm[u] = "seats"
    /\ Run(t, Handler("drive_write", u, NoUser, n, 0))
    /\ UNCHANGED <<event, table, chat>>

(* set_driver: an upsert that keeps guest_count *)
DriveWrite(t) ==
    LET u == job[t].who
    IN  /\ job[t].pc \in {"drive_write", "drive_manual"}
        /\ Store([row EXCEPT ![u] = AsDriver(row[u], job[t].num)], {})
        /\ IF At(t, "drive_write") THEN Goto(t, "ensure_driver") ELSE Done(t)
        /\ UNCHANGED <<event, chat>>

PassengerClick(t, u) ==
    LET free == {d \in Users : /\ row[d].status = "driver"
                               /\ row[d].seats > Cardinality(Passengers(d))}
    IN  /\ Start(t, "passenger") /\ active /\ CarpoolOn
        /\ row[u].status \notin {"driver", "passenger"}
        /\ free # {}
        /\ offers' = [offers EXCEPT ![u] = @ \union free]
        /\ UNCHANGED <<event, table, fsm, job>>

(* A keyboard stays in the chat until a press on it succeeds; several may be *)
(* open, so an offer is not withdrawn.                                       *)
ChooseDriver(t, u, d) ==
    /\ Start(t, "passenger") /\ d \in offers[u] /\ FreeSeats(d) > 0
    /\ Run(t, Handler("ride_write", u, d, 0, 0))
    /\ UNCHANGED <<event, table, chat>>

(* set_passenger: an upsert that keeps guest_count *)
RideWrite(t) ==
    LET u == job[t].who
    IN  /\ job[t].pc \in {"ride_write", "ride_manual"}
        /\ Store([row EXCEPT ![u] = AsPassenger(row[u], job[t].tgt)], {})
        /\ IF At(t, "ride_write") THEN Goto(t, "ensure_rider") ELSE Done(t)
        /\ UNCHANGED <<event, chat>>

(* "add to the main list if he is not there" after either upsert *)
EnsureMain(t) ==
    LET u == job[t].who
    IN  /\ job[t].pc \in {"ensure_driver", "ensure_rider"}
        /\ IF u \in Main THEN Done(t) ELSE Goto(t, "insert_going")
        /\ fsm' = IF At(t, "ensure_driver") THEN [fsm EXCEPT ![u] = "none"] ELSE fsm
        /\ UNCHANGED <<event, table, offers>>

-----------------------------------------------------------------------------
(* The organiser: manual commands, the limit, the deletion of the event *)

(* /add_participant_manual, its apm_ buttons and /set_responsible *)
ManualAdd(t, u) ==
    /\ Start(t, "manual_add")
    /\ \E p \in {"insert_going", "insert_reserve"} : Begin(t, p, u)
    /\ UNCHANGED <<event, table, chat>>

ManualDriver(t, u, n) ==
    /\ Start(t, "manual_carpool")
    /\ Run(t, Handler("drive_manual", u, NoUser, n, 0))
    /\ UNCHANGED <<event, table, chat>>

ManualPassenger(t, u, d) ==
    /\ Start(t, "manual_carpool") /\ FreeSeats(d) > 0
    /\ Run(t, Handler("ride_manual", u, d, 0, 0))
    /\ UNCHANGED <<event, table, chat>>

EditLimit(t, l) ==
    /\ Start(t, "limit")
    /\ limit' = l
    /\ UNCHANGED <<active, table, chat, job>>

(* delete_event_execute, then the two statements of cancel_event *)
DeleteClick(t) ==
    /\ Start(t, "delete")
    /\ Begin(t, "cancel_mark", NoUser)
    /\ UNCHANGED <<event, table, chat>>

CancelMark(t) ==
    /\ At(t, "cancel_mark")
    /\ active' = FALSE
    /\ Goto(t, "cancel_clear")
    /\ UNCHANGED <<limit, table, chat>>

CancelClear(t) ==
    /\ At(t, "cancel_clear")
    /\ Store([u \in Users |-> NoRow], {})
    /\ Done(t)
    /\ UNCHANGED <<event, chat>>

(* The process is restarted: its tasks are gone, the tables (the FSM states *)
(* too, fsm_storage_pg) are not.                                            *)
Restart ==
    /\ "restart" \in Handlers
    /\ \E t \in Tasks : ~At(t, "idle")
    /\ job' = [t \in Tasks |-> Idle]
    /\ UNCHANGED <<event, table, chat>>

-----------------------------------------------------------------------------
Init ==
    /\ active = TRUE
    /\ limit \in Limits
    /\ row = [u \in Users |-> NoRow]
    /\ before = [u \in Users |-> {}]
    /\ offered = [u \in Users |-> 0]
    /\ fsm = [u \in Users |-> "none"]
    /\ offers = [u \in Users |-> {}]
    /\ job = [t \in Tasks |-> Idle]

(* An update reaches the bot. *)
Update(t) ==
    \/ \E u \in Users :
         \/ JoinClick(t, u) \/ ReserveClick(t, u) \/ DeclineClick(t, u)
         \/ GuestsClick(t, u) \/ \E g \in 0..MaxGuests : GuestsMessage(t, u, g)
         \/ SeekClick(t, u) \/ DriverClick(t, u) \/ PassengerClick(t, u)
         \/ \E n \in 1..MaxSeats : SeatsMessage(t, u, n) \/ ManualDriver(t, u, n)
         \/ \E d \in Users : ChooseDriver(t, u, d) \/ ManualPassenger(t, u, d)
         \/ ManualAdd(t, u)
    \/ \E l \in Limits : EditLimit(t, l)
    \/ DeleteClick(t)

(* A handler in flight runs to its next statement. *)
Work(t) ==
    \/ InsertSnapshot(t) \/ InsertWrite(t) \/ InsertReserve(t)
    \/ PromoteSnapshot(t) \/ PromoteWrite(t)
    \/ DemoteRiders(t) \/ DemoteWrite(t)
    \/ RemoveRiders(t) \/ RemoveWrite(t)
    \/ PickCheck(t) \/ PickSelect(t) \/ PickWrite(t) \/ NotifyPromoted(t)
    \/ GuestCheck(t) \/ GuestWrite(t)
    \/ SeekWrite(t) \/ DriveWrite(t) \/ RideWrite(t) \/ EnsureMain(t)
    \/ CancelMark(t) \/ CancelClear(t)

Next == (\E t \in Tasks : Update(t) \/ Work(t)) \/ Restart

Spec == Init /\ [][Next]_vars

(* asyncio runs every task that is ready, so a handler in flight proceeds; *)
(* nobody is obliged to press a button.                                    *)
FairSpec == Spec /\ \A t \in Tasks : WF_vars(Work(t))

-----------------------------------------------------------------------------
(* The variables have their types. *)
TypeOK ==
    /\ active \in BOOLEAN
    /\ limit \in Limits
    /\ row \in [Users -> Rows]
    /\ before \in [Users -> SUBSET Users]
    /\ offered \in [Users -> 0..MaxSeats]
    /\ fsm \in [Users -> {"none", "guests", "seats"}]
    /\ offers \in [Users -> SUBSET Users]
    /\ job \in [Tasks -> Jobs]

(* Whatever handlers overlap, a row never mixes two roles: a driver is       *)
(* nobody's passenger, a passenger has a driver and offers no seats, a       *)
(* waiting user holds neither.                                               *)
OneRole(r) ==
    /\ r.status = "driver" => r.driver = NoUser
    /\ r.status = "passenger" => r.seats = 0 /\ r.driver # NoUser
    /\ r.status = "waitlist" => r.seats = 0 /\ r.driver = NoUser
    /\ r.status = "none" => r = NoRow
RosterShape == \A u \in Users : OneRole(row[u])

(* Seats that the handlers in flight have been granted and not yet written: *)
(* the checks of InsertSnapshot, PromoteSnapshot, PickCheck and GuestCheck  *)
(* are over.  The user a pick will choose is not known yet: it holds a seat *)
(* in the name of its task.                                                 *)
Granted(t) ==
    CASE job[t].pc \in {"write_going", "write_seeker", "promote_write"} -> {<<job[t].who, 0>>}
      [] job[t].pc = "pick_select" -> {<<t, -1>>}
      [] job[t].pc = "pick_write" -> {<<job[t].tgt, 0>>}
      [] job[t].pc = "guest_check" -> {<<job[t].who, i>> : i \in 1..job[t].old}
      [] job[t].pc = "guest_write" -> {<<job[t].who, i>> : i \in 1..job[t].num}
      [] OTHER -> {}

(* The most one handler can hold that another does not see. *)
MostGranted == IF MaxGuests = 0 THEN 1 ELSE MaxGuests

(* By how much a stale number of guests can mislead GuestCheck: with a      *)
(* single guest, a number that changes to 1 changes from 0.                 *)
StaleGuests == IF MaxGuests <= 1 THEN 0 ELSE MaxGuests
SeatBound == MaxLimit + StaleGuests + (Cardinality(Tasks) - 1) * MostGranted

SeatsPromised == SeatsTaken \union UNION {Granted(t) : t \in Tasks}
PromisesBounded == Cardinality(SeatsPromised) <= SeatBound

(* The capacity checks are not atomic with the writes, so overlapping        *)
(* handlers overbook an event; but each check counts what the earlier ones   *)
(* wrote, so the excess never accumulates: it is bounded by what the other   *)
(* handlers in flight were granted (and by one user's guests, whose old      *)
(* number a second dialogue may have changed).                               *)
OverbookingBounded == Occupied <= SeatBound

(* However old the keyboard it was chosen on, a seat is taken only in the    *)
(* car of somebody who drives and has one free besides his own (one handler  *)
(* at a time).                                                               *)
BoardsFreeSeat ==
    [][\A u, d \in Users :
         /\ row'[u].status = "passenger" /\ row'[u].driver = d
         /\ row[u].status # "passenger" \/ row[u].driver # d
         => /\ row[d].status = "driver"
            /\ Cardinality({v \in Users : row'[v].status = "passenger" /\ row'[v].driver = d})
                 < row[d].seats]_vars

(* A car holds no more passengers than it has seats besides the driver's,   *)
(* but for the boardings that overlapped: the check and the writing of a    *)
(* seat are two statements.  A driver who names fewer seats again puts      *)
(* nobody out of his car, so the seats are the most he has offered since it *)
(* was empty; nor does one who leaves keep out those about to board.        *)
CarPlaces(d) == IF offered[d] = 0 THEN 0 ELSE offered[d] - 1
CarBound(d) == CarPlaces(d) + Cardinality(Tasks) - 1
CarBounded == \A d \in Users : Cardinality(Passengers(d)) <= CarBound(d)

(* The bot promotes in turn: whoever gets a place without pressing a button  *)
(* (move_from_waitlist) has nobody waiting ahead of him, except the user who *)
(* has just given that place up.                                             *)
PromotedInTurn ==
    [][\A v \in Waitlist : v \in Main' /\ (\A t \in Tasks : job[t].who # v)
                           => before[v] \subseteq {job[t].who : t \in Tasks}]_vars

(* Places given up with "Снять запись" go to the queue: once a member is     *)
(* about to be deleted, and the main list will then be short of its limit,   *)
(* whoever is first in the queue gets in, and needs nobody's help for it.    *)
FreedSeatIsTaken ==
    \A v \in Users, t \in Tasks :
        LET u == job[t].who
        IN  (/\ At(t, "remove_write") /\ u \in Main /\ v \in FirstOf(Waitlist)
             /\ limit <= 0 \/ Occupied - 1 - row[u].guests < limit)
            ~> v \notin Waitlist

(* add_participant promises to check the limit atomically: what the main     *)
(* list takes up never exceeds it.  Overlapping handlers break this.         *)
LimitRespected == limit <= 0 \/ Occupied <= limit

(* Whatever buttons and questions are still open when an event is cancelled, *)
(* its cleared roster gains nobody but drivers, who answer the question for  *)
(* their seats, and passengers of theirs: process_car_seats and              *)
(* choose_driver do not look whether the event is active (one handler at a   *)
(* time).                                                                    *)
CancelledGainsOnlyCars ==
    ~active /\ (\A t \in Tasks : At(t, "idle"))
      => \A u \in Users : row[u].status \in {"none", "driver", "passenger"}

(* One handler at a time, the roster is the seat book. *)
SB == INSTANCE SeatBook WITH
        open <- active,
        place <- [u \in Users |-> IF u \in Main THEN "in"
                                  ELSE IF u \in Waitlist THEN "queue" ELSE "out"],
        guests <- [u \in Users |-> row[u].guests],
        ahead <- before
ImplementsSeatBook == SB!Spec

=============================================================================
