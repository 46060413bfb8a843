----------------------------- MODULE SerialProofs -----------------------------
(***************************************************************************)
(* The roster while its handlers run one at a time: what keyboards of any  *)
(* age do, who is left on the list of a cancelled event, who is promoted,  *)
(* and that every handler is then one step of the seat book (SeatBook), so *)
(* that the list grows only within the limit.                              *)
(***************************************************************************)
EXTENDS OverbookingProofs

(* One handler at a time: no step falls between a grant and its write. *)
OneTask == \A s, t \in Tasks : s = t

SeatKept == \A t \in Tasks : job[t].pc \in RideLabels => FreeSeats(job[t].tgt) > 0

LEMMA SeatKeptNext == OneTask /\ Typed /\ SeatKept /\ [Next]_vars => SeatKept'
<1> SUFFICES ASSUME OneTask, Typed, SeatKept, [Next]_vars
             PROVE  SeatKept'
  OBVIOUS
<1>1. ASSUME NEW t \in Tasks, Granting(t)
      PROVE  SeatKept'
  <2>1. PICK u \in Users, d \in Users : ChooseDriver(t, u, d) \/ ManualPassenger(t, u, d)
    BY <1>1 DEF Granting
  <2>2. FreeSeats(d)' = FreeSeats(d) /\ FreeSeats(d) > 0 /\ job'[t].tgt = d
    <3>1. row' = row /\ FreeSeats(d) > 0 /\ job'[t].tgt = d
      BY <2>1 DEF ChooseDriver, ManualPassenger, table, Run, Handler, Typed, TypeOK
    <3> QED
      BY <3>1 DEF FreeSeats, Passengers, Riders
  <2>3. FreeSeats(job[t].tgt)' = FreeSeats(d)'
    BY <2>2 DEF FreeSeats, Passengers, Riders
  <2> QED
    BY <2>2, <2>3 DEF SeatKept, OneTask
<1>2. ASSUME NEW t \in Tasks, Update(t) \/ Work(t), ~Granting(t)
      PROVE  SeatKept'
  BY <1>2, NobodyIsGranted DEF SeatKept, OneTask
<1>3. CASE Restart
  BY <1>3 DEF Restart, SeatKept, RideLabels, Idle, Handler
<1>4. CASE UNCHANGED vars
  BY <1>4 DEF vars, SeatKept, FreeSeats, Passengers, Riders
<1> QED
  BY <1>1, <1>2, <1>3, <1>4 DEF Next

LEMMA BoardingStep ==
    ASSUME Typed, SeatKept, [Next]_vars, NEW u \in Users, NEW d \in Users,
           row'[u].status = "passenger", row'[u].driver = d,
           row[u].status # "passenger" \/ row[u].driver # d
    PROVE  /\ row[d].status = "driver"
           /\ Cardinality({v \in Users : row'[v].status = "passenger" /\ row'[v].driver = d})
                 < row[d].seats
<1>1. u \in Passengers(d)' /\ u \notin Passengers(d)
  BY DEF Passengers, Riders
<1>2. PICK t \in Tasks : RideWrite(t)
  BY <1>1, NobodyBoards
<1>3. job[t].tgt = d /\ job[t].pc \in RideLabels
  BY <1>1, <1>2, RideAdds DEF RideWrite, RideLabels
<1>4. FreeSeats(d) > 0
  BY <1>3 DEF SeatKept
<1>5. /\ row[d].status = "driver" /\ row[d].seats \in 0..MaxSeats
      /\ Cardinality(Passengers(d)) <= row[d].seats - 2
  BY <1>4, FreeSeatMeans
<1>6. Cardinality(Passengers(d)') < row[d].seats
  BY <1>2, <1>5, RideAdds, CarFinite, ParticipationAssumption
<1>7. Passengers(d)' = {v \in Users : row'[v].status = "passenger" /\ row'[v].driver = d}
  BY DEF Passengers, Riders
<1> QED
  BY <1>5, <1>6, <1>7

(* A keyboard of any age puts nobody into a car without a driver or without *)
(* a free seat.                                                             *)
THEOREM FreeSeatsAreBoarded ==
    ASSUME OneTask
    PROVE  Spec => BoardsFreeSeat
<1>1. Init => SeatKept
  BY DEF Init, SeatKept, Idle, Handler, RideLabels
<1>2. Typed /\ SeatKept /\ [Next]_vars => Typed' /\ SeatKept'
  BY NextTyped, SeatKeptNext
<1> DEFINE Step == \A u, d \in Users :
              /\ row'[u].status = "passenger" /\ row'[u].driver = d
              /\ row[u].status # "passenger" \/ row[u].driver # d
              => /\ row[d].status = "driver"
                 /\ Cardinality({v \in Users : row'[v].status = "passenger" /\ row'[v].driver = d})
                      < row[d].seats
<1>3. Typed /\ SeatKept /\ [Next]_vars => [Step]_vars
  BY BoardingStep
<1>4. BoardsFreeSeat <=> [][Step]_vars
  BY DEF BoardsFreeSeat
<1> HIDE DEF Step
<1> QED
  BY <1>1, <1>2, <1>3, <1>4, InitTyped, PTL DEF Spec

-----------------------------------------------------------------------------
(* After the cancellation a handler at work either clears the table next,  *)
(* or is one of those that do not look whether the event is active.        *)
CarRoles == {"none", "driver", "passenger"}
LateLabels == {"idle", "remove_riders", "remove_write", "pick_check", "pick_select",
               "drive_write", "drive_manual", "ensure_driver", "ride_write", "ride_manual",
               "ensure_rider", "cancel_mark"}

CarsOnly == \A u \in Users : row[u].status \in CarRoles

Late(t) == /\ job[t].pc \in LateLabels
           /\ job[t].pc \in {"ensure_driver", "ensure_rider"} => job[t].who \in Main

Over == ~active => \A t \in Tasks : job[t].pc = "cancel_clear" \/ (CarsOnly /\ Late(t))

(* The organizer adds nobody by hand, and no restart leaves the table of a *)
(* cancelled event uncleared.                                              *)
Undisturbed == OneTask /\ Handlers \intersect {"manual_add", "restart"} = {}

LEMMA OverNext == Undisturbed /\ Typed /\ Over /\ [Next]_vars => Over'
<1> SUFFICES ASSUME Undisturbed, Typed, Over, [Next]_vars, ~active'
             PROVE  \A t \in Tasks : job'[t].pc = "cancel_clear" \/ (CarsOnly' /\ Late(t)')
  BY DEF Over
<1> USE DEF At, Run, Begin, Aim, Goto, Done, Handler, Idle
<1>a. job \in [Tasks -> Jobs] /\ row \in [Users -> Rows] /\ \A t \in Tasks : JobOK(job[t])
  BY DEF Typed, TypeOK
<1>b. ASSUME NEW t \in Tasks, job'[t].pc = "cancel_clear" \/ (CarsOnly' /\ Late(t)')
      PROVE  \A s \in Tasks : job'[s].pc = "cancel_clear" \/ (CarsOnly' /\ Late(s)')
  BY <1>b DEF Undisturbed, OneTask
<1>c. UNCHANGED table /\ CarsOnly => CarsOnly'
  BY DEF table, CarsOnly
<1>d. ASSUME NEW u \in Users, NEW q, NEW tail, Store([row EXCEPT ![u] = q], tail),
             q.status \in CarRoles, CarsOnly
      PROVE  CarsOnly' /\ row'[u] = q
  BY <1>a, <1>d DEF Store, CarsOnly
<1>1. ASSUME NEW t \in Tasks, CancelMark(t) \/ CancelClear(t)
      PROVE  job'[t].pc = "cancel_clear" \/ (CarsOnly' /\ Late(t)')
  BY <1>1, <1>a
  DEF CancelMark, CancelClear, Store, CarsOnly, CarRoles, NoRow, Fresh, Late, LateLabels
<1>2. ASSUME NEW t \in Tasks, Update(t) \/ Work(t), ~CancelMark(t), ~CancelClear(t)
      PROVE  ~active /\ CarsOnly /\ Late(t) /\ job[t].pc # "cancel_clear"
  <2>1. CASE Update(t)
    BY <2>1
    DEF Over, Update, JoinClick, ReserveClick, DeclineClick, GuestsClick, GuestsMessage, SeekClick,
        DriverClick, PassengerClick, SeatsMessage, ManualDriver, ChooseDriver, ManualPassenger,
        ManualAdd, EditLimit, DeleteClick, Start, event
  <2>2. CASE Work(t)
    <3>1. UNCHANGED active /\ job[t].pc # "cancel_clear"
      BY <1>2, <2>2
      DEF event, Work, InsertSnapshot, InsertWrite, InsertReserve, PromoteSnapshot, PromoteWrite,
          DemoteRiders, DemoteWrite, RemoveRiders, RemoveWrite, PickCheck, PickSelect, PickWrite,
          NotifyPromoted, GuestCheck, GuestWrite, SeekWrite, DriveWrite, RideWrite, EnsureMain
    <3> QED
      BY <3>1 DEF Over
  <2> QED
    BY <1>2, <2>1, <2>2
<1>3. ASSUME NEW t \in Tasks, Update(t)
      PROVE  CarsOnly' /\ Late(t)'
  <2>1. ~active /\ CarsOnly /\ job[t].pc = "idle"
    BY <1>2, <1>3
    DEF Update, JoinClick, ReserveClick, DeclineClick, GuestsClick, GuestsMessage, SeekClick,
        DriverClick, PassengerClick, SeatsMessage, ManualDriver, ChooseDriver, ManualPassenger,
        ManualAdd, EditLimit, DeleteClick, Start, CancelMark, CancelClear
  <2>2. UNCHANGED table /\ job'[t].pc \in LateLabels \ {"ensure_driver", "ensure_rider"}
    BY <2>1, <1>3, <1>a
    DEF Update, JoinClick, ReserveClick, DeclineClick, GuestsClick, GuestsMessage, SeekClick,
        DriverClick, PassengerClick, SeatsMessage, ManualDriver, ChooseDriver, ManualPassenger,
        ManualAdd, EditLimit, DeleteClick, Start, Undisturbed, LateLabels
  <2> QED
    BY <2>1, <2>2, <1>c DEF Late
<1>4. ASSUME NEW t \in Tasks, DriveWrite(t) \/ RideWrite(t)
      PROVE  CarsOnly' /\ Late(t)'
  <2>1. CarsOnly /\ job[t].who \in Users
    BY <1>2, <1>4, <1>a DEF Work, DriveWrite, RideWrite, CancelMark, CancelClear, JobOK
  <2>2. PICK q : /\ Store([row EXCEPT ![job[t].who] = q], {})
                 /\ q.status \in {"driver", "passenger"}
    <3>1. /\ AsDriver(row[job[t].who], job[t].num).status = "driver"
          /\ AsPassenger(row[job[t].who], job[t].tgt).status = "passenger"
      BY DEF AsDriver, AsPassenger
    <3>2. \/ Store([row EXCEPT ![job[t].who] = AsDriver(row[job[t].who], job[t].num)], {})
          \/ Store([row EXCEPT ![job[t].who] = AsPassenger(row[job[t].who], job[t].tgt)], {})
      BY <1>4 DEF DriveWrite, RideWrite
    <3> QED
      BY <3>1, <3>2
  <2>3. CarsOnly' /\ job[t].who \in Main'
    BY <2>1, <2>2, <1>d DEF CarRoles, Main, MainStatuses
  <2>4. /\ job'[t].pc \in {"ensure_driver", "ensure_rider", "idle"}
        /\ job'[t].pc # "idle" => job'[t].who = job[t].who
    BY <1>4, <1>a DEF DriveWrite, RideWrite
  <2> QED
    BY <2>3, <2>4 DEF Late, LateLabels
<1>5. ASSUME NEW t \in Tasks, RemoveRiders(t) \/ RemoveWrite(t)
      PROVE  CarsOnly' /\ Late(t)'
  <2>1. CarsOnly /\ job[t].who \in Users
    BY <1>2, <1>5, <1>a DEF Work, RemoveRiders, RemoveWrite, CancelMark, CancelClear, JobOK
  <2>2. NoRow.status \in CarRoles
    BY DEF NoRow, Fresh, CarRoles
  <2>3. CarsOnly'
    <3>1. CASE RemoveRiders(t)
      BY <3>1, <2>1, <2>2 DEF RemoveRiders, Store, CarsOnly
    <3>2. CASE RemoveWrite(t)
      BY <3>2, <2>1, <2>2, <1>d DEF RemoveWrite
    <3> QED
      BY <3>1, <3>2, <1>5
  <2>4. job'[t].pc \in {"remove_write", "pick_check"}
    BY <1>5, <1>a DEF RemoveRiders, RemoveWrite
  <2> QED
    BY <2>3, <2>4 DEF Late, LateLabels
<1>6. ASSUME NEW t \in Tasks, PickCheck(t) \/ PickSelect(t) \/ EnsureMain(t)
      PROVE  CarsOnly' /\ Late(t)'
  <2>1. CarsOnly /\ Late(t)
    BY <1>2, <1>6 DEF Work, PickCheck, PickSelect, EnsureMain, CancelMark, CancelClear
  <2>2. Waitlist = {}
    BY <2>1 DEF CarsOnly, CarRoles, Waitlist
  <2>3. UNCHANGED table /\ job'[t].pc \in {"idle", "pick_select"}
    BY <1>6, <1>a, <2>1, <2>2
    DEF PickCheck, PickSelect, EnsureMain, Late, LateLabels, FirstOf, table
  <2> QED
    BY <2>1, <2>3, <1>c DEF Late, LateLabels
<1>7. ASSUME NEW t \in Tasks,
             InsertSnapshot(t) \/ InsertWrite(t) \/ InsertReserve(t) \/ PromoteSnapshot(t)
             \/ PromoteWrite(t) \/ DemoteRiders(t) \/ DemoteWrite(t) \/ PickWrite(t)
             \/ NotifyPromoted(t) \/ GuestCheck(t) \/ GuestWrite(t) \/ SeekWrite(t)
      PROVE  FALSE
  BY <1>2, <1>7
  DEF Work, InsertSnapshot, InsertWrite, InsertReserve, PromoteSnapshot, PromoteWrite,
      DemoteRiders, DemoteWrite, PickWrite, NotifyPromoted, GuestCheck, GuestWrite, SeekWrite,
      CancelMark, CancelClear, Late, LateLabels
<1>8. CASE Restart
  BY <1>8 DEF Restart, Undisturbed
<1>9. CASE UNCHANGED vars
  BY <1>9 DEF vars, Over, CarsOnly, Late, Main
<1> QED
  BY <1>b, <1>1, <1>3, <1>4, <1>5, <1>6, <1>7, <1>8, <1>9 DEF Next, Work

(* Whatever is still open when an event is cancelled, its list gains nobody *)
(* but drivers and passengers.                                              *)
THEOREM CancelledHasOnlyCars ==
    ASSUME Undisturbed
    PROVE  Spec => []CancelledGainsOnlyCars
<1>1. Init => Over
  BY DEF Init, Over
<1>2. Typed /\ Over /\ [Next]_vars => Typed' /\ Over'
  BY NextTyped, OverNext
<1>3. Over => CancelledGainsOnlyCars
  BY ParticipationAssumption DEF Over, CancelledGainsOnlyCars, CarsOnly, CarRoles, At
<1> QED
  BY <1>1, <1>2, <1>3, InitTyped, PTL DEF Spec

-----------------------------------------------------------------------------
(* Whom handler t is about to promote, and whom it may not. *)
InTurn(t) ==
    LET j == job[t]
    IN  /\ j.pc \in {"demote_riders", "demote_write", "remove_riders", "remove_write"}
             => j.tgt = NoUser
        /\ j.pc \in {"pick_check", "pick_select"} => j.tgt \in {NoUser, j.who}
        /\ j.pc = "pick_write" => before[j.tgt] \subseteq {j.who}

(* The pick finds the first in the queue but for the user it excludes. *)
LEMMA InTurnNext ==
    ASSUME OneTask, Typed, QueueIsOrdered, \A t \in Tasks : InTurn(t), [Next]_vars
    PROVE  \A t \in Tasks : InTurn(t)'
<1> USE DEF At, Run, Begin, Aim, Goto, Done, Handler, Idle
<1>a. job \in [Tasks -> Jobs] /\ \A t \in Tasks : InTurn(t)
  BY DEF Typed, TypeOK
<1>b. ASSUME NEW t \in Tasks, InTurn(t)'
      PROVE  \A s \in Tasks : InTurn(s)'
  BY <1>b DEF OneTask
<1>1. ASSUME NEW t \in Tasks, Update(t)
      PROVE  InTurn(t)'
  BY <1>1, <1>a
  DEF Update, JoinClick, ReserveClick, DeclineClick, GuestsClick, GuestsMessage, SeekClick,
      DriverClick, PassengerClick, SeatsMessage, ManualDriver, ChooseDriver, ManualPassenger,
      ManualAdd, EditLimit, DeleteClick, Start, InTurn
<1>2. ASSUME NEW t \in Tasks, PickSelect(t)
      PROVE  InTurn(t)'
  <2>1. CASE Done(t)
    BY <2>1, <1>a DEF InTurn
  <2>2. ASSUME NEW v \in FirstOf(Waitlist \ {job[t].tgt}), Aim(t, "pick_write", v)
        PROVE  InTurn(t)'
    <3>1. before[v] \subseteq Waitlist \intersect {job[t].tgt}
      BY <2>2 DEF FirstOf, QueueIsOrdered
    <3>2. Waitlist \intersect {job[t].tgt} \subseteq {job[t].who}
      BY <1>2, <1>a, ParticipationAssumption DEF PickSelect, InTurn, Waitlist
    <3> QED
      BY <3>1, <3>2, <2>2, <1>2, <1>a DEF PickSelect, table, InTurn
  <2> QED
    BY <2>1, <2>2, <1>2 DEF PickSelect
<1>3. ASSUME NEW t \in Tasks, Work(t), ~PickSelect(t)
      PROVE  InTurn(t)'
  BY <1>3, <1>a
  DEF Work, InsertSnapshot, InsertWrite, InsertReserve, PromoteSnapshot, PromoteWrite,
      DemoteRiders, DemoteWrite, RemoveRiders, RemoveWrite, PickCheck, PickWrite,
      NotifyPromoted, GuestCheck, GuestWrite, SeekWrite, DriveWrite, RideWrite, EnsureMain,
      CancelMark, CancelClear, InTurn
<1>4. CASE Restart
  BY <1>4 DEF Restart, InTurn
<1>5. CASE UNCHANGED vars
  BY <1>5, <1>a DEF vars, InTurn
<1> QED
  BY <1>b, <1>1, <1>2, <1>3, <1>4, <1>5 DEF Next

(* Whoever stops waiting without having pressed a button was picked. *)
LEMMA PromotionStep ==
    ASSUME Typed, RosterShape, [Next]_vars, NEW v \in Waitlist, v \in Main',
           \A t \in Tasks : job[t].who # v
    PROVE  \E t \in Tasks : job[t].pc = "pick_write" /\ job[t].tgt = v
<1> DEFINE Goal == \E t \in Tasks : job[t].pc = "pick_write" /\ job[t].tgt = v
<1> USE DEF At
<1>a. /\ row \in [Users -> Rows] /\ \A t \in Tasks : JobOK(job[t])
      /\ v \in Users /\ row[v].status = "waitlist" /\ row[v].driver = NoUser
      /\ row'[v].status \in MainStatuses
  BY DEF Typed, TypeOK, Waitlist, Main, RosterShape, OneRole
<1>b. row'[v] # row[v] /\ row'[v] # NoRow
  BY <1>a DEF MainStatuses, NoRow, Fresh
<1>c. ASSUME NEW u \in Users, NEW q, NEW tail, Store([row EXCEPT ![u] = q], tail)
      PROVE  u = v
  BY <1>a, <1>b, <1>c DEF Store
<1>d. ~ UNCHANGED table
  BY <1>b DEF table
<1>1. ASSUME NEW t \in Tasks,
             InsertWrite(t) \/ InsertReserve(t) \/ PromoteWrite(t) \/ DemoteWrite(t)
             \/ RemoveWrite(t) \/ GuestWrite(t) \/ SeekWrite(t) \/ DriveWrite(t) \/ RideWrite(t)
      PROVE  FALSE
  <2>1. job[t].who \in Users
    BY <1>1, <1>a
    DEF InsertWrite, InsertReserve, PromoteWrite, DemoteWrite, RemoveWrite, GuestWrite, SeekWrite,
        DriveWrite, RideWrite, JobOK
  <2>2. job[t].who = v
    BY <2>1, <1>1, <1>c, <1>d
    DEF InsertWrite, InsertReserve, PromoteWrite, DemoteWrite, RemoveWrite, GuestWrite, SeekWrite,
        DriveWrite, RideWrite
  <2> QED
    BY <2>2
<1>2. ASSUME NEW t \in Tasks, PickWrite(t)
      PROVE  Goal
  BY <1>2, <1>a, <1>c, <1>d DEF PickWrite, JobOK
<1>3. ASSUME NEW t \in Tasks, DemoteRiders(t) \/ RemoveRiders(t) \/ CancelClear(t)
      PROVE  FALSE
  <2>1. CASE CancelClear(t)
    BY <2>1, <1>a, <1>b DEF CancelClear, Store
  <2>2. CASE DemoteRiders(t) \/ RemoveRiders(t)
    <3>1. v \notin Riders(job[t].who)
      BY <2>2, <1>a, ParticipationAssumption DEF DemoteRiders, RemoveRiders, Riders, JobOK
    <3> QED
      BY <3>1, <2>2, <1>a, <1>b DEF DemoteRiders, RemoveRiders, Store
  <2> QED
    BY <2>1, <2>2, <1>3
<1>4. ASSUME NEW t \in Tasks,
             \/ Update(t) \/ InsertSnapshot(t) \/ PromoteSnapshot(t) \/ PickCheck(t)
             \/ PickSelect(t) \/ NotifyPromoted(t) \/ GuestCheck(t) \/ EnsureMain(t)
             \/ CancelMark(t)
      PROVE  FALSE
  BY <1>4, <1>d
  DEF Update, JoinClick, ReserveClick, DeclineClick, GuestsClick, GuestsMessage, SeekClick,
      DriverClick, PassengerClick, SeatsMessage, ManualDriver, ChooseDriver, ManualPassenger,
      ManualAdd, EditLimit, DeleteClick, InsertSnapshot, PromoteSnapshot, PickCheck, PickSelect,
      NotifyPromoted, GuestCheck, EnsureMain, CancelMark, table
<1>5. CASE Restart \/ UNCHANGED vars
  BY <1>5, <1>d DEF Restart, vars, table
<1> QED
  BY <1>1, <1>2, <1>3, <1>4, <1>5 DEF Next, Work

(* move_from_waitlist promotes in turn: nobody but the user who gave the    *)
(* place up waits ahead of whoever gets it.                                 *)
THEOREM PromotionIsInTurn ==
    ASSUME OneTask
    PROVE  Spec => PromotedInTurn
<1> DEFINE Turns == \A t \in Tasks : InTurn(t)
           Step == \A v \in Waitlist : v \in Main' /\ (\A t \in Tasks : job[t].who # v)
                                       => before[v] \subseteq {job[t].who : t \in Tasks}
           Inv == Typed /\ RosterShape /\ QueueIsOrdered /\ Turns
<1>1. Init => Inv
  BY InitTyped DEF Init, RosterShape, OneRole, QueueIsOrdered, Waitlist, NoRow, Fresh, InTurn,
                       Idle, Handler
<1>2. Inv /\ [Next]_vars => Inv'
  BY NextTyped, RosterShapeNext, QueueNext, InTurnNext
<1>3. Inv /\ [Next]_vars => [Step]_vars
  <2> SUFFICES ASSUME Inv, [Next]_vars, NEW v \in Waitlist, v \in Main',
                      \A t \in Tasks : job[t].who # v
               PROVE  before[v] \subseteq {job[t].who : t \in Tasks}
    OBVIOUS
  <2>1. PICK t \in Tasks : job[t].pc = "pick_write" /\ job[t].tgt = v
    BY PromotionStep
  <2> QED
    BY <2>1 DEF InTurn
<1>4. PromotedInTurn <=> [][Step]_vars
  BY DEF PromotedInTurn
<1> HIDE DEF Step, Inv
<1> QED
  BY <1>1, <1>2, <1>3, <1>4, PTL DEF Spec

-----------------------------------------------------------------------------
(***************************************************************************)
(* The seat book.  The refinement mapping reads a member's place off the   *)
(* status of his row; each statement that writes a row is one step of the  *)
(* book, every other step leaves the book as it is.  What a handler read   *)
(* before the statement (Informed) is still so, because no other handler   *)
(* runs, and that is what makes the step one of the book's.                *)
(***************************************************************************)
PlaceOf(s) == IF s \in MainStatuses THEN "in" ELSE IF s = "waitlist" THEN "queue" ELSE "out"
Places == [u \in Users |-> IF u \in Main THEN "in" ELSE IF u \in Waitlist THEN "queue"
                                    ELSE "out"]

(* The place of a user, before a step and after it. *)
LEMMA PlacesAre ==
    /\ \A u \in Users : Places[u] = PlaceOf(row[u].status)
    /\ \A u \in Users : Places'[u] = PlaceOf(row'[u].status)
BY DEF Places, PlaceOf, Main, Waitlist, MainStatuses

(* The book counts as the table does. *)
LEMMA SameCount ==
    ASSUME NEW S
    PROVE  SB!Cardinality(S) = Cardinality(S)
BY DEF Cardinality, SB!Cardinality

(* The sets of the book are those of the table. *)
LEMMA BookSets == SB!In = Main /\ SB!Queue = Waitlist /\ SB!Taken = Occupied
<1>1. \A u \in Users : (Places[u] = "in" <=> u \in Main) /\ (Places[u] = "queue" <=> u \in Waitlist)
  BY PlacesAre DEF PlaceOf, Main, Waitlist, MainStatuses
<1>2. SB!In = Main /\ SB!Queue = Waitlist
  BY <1>1 DEF SB!In, SB!Queue, Places, Main, Waitlist
<1>3. SeatsTaken = {s \in Users \X (0..MaxGuests) :
                      s[1] \in SB!In /\ s[2] <= [u \in Users |-> row[u].guests][s[1]]}
  BY <1>2 DEF SeatsTaken
<1> QED
  BY <1>2, <1>3, SameCount DEF SB!Taken, Occupied

(* The row of one user is written anew: the book moves him. *)
LEMMA BookMove ==
    ASSUME Typed, QueueIsOrdered, NEW u \in Users, NEW q \in Rows, q.guests = 0,
           NEW tail, tail = IF q.status = "waitlist" THEN {u} ELSE {},
           Store([row EXCEPT ![u] = q], tail)
    PROVE  SB!Move(u, PlaceOf(q.status))
<1> DEFINE rows == [row EXCEPT ![u] = q]
           waiting == {v \in Users : rows[v].status = "waitlist"}
<1>1. /\ row \in [Users -> Rows] /\ before \in [Users -> SUBSET Users]
      /\ rows[u] = q /\ \A v \in Users \ {u} : rows[v] = row[v]
  BY DEF Typed, TypeOK
<1>2. row' = rows
  BY DEF Store
<1>3. before' = [v \in Users |->
         IF v \notin waiting THEN {}
         ELSE IF v \in tail THEN waiting \ {v}
         ELSE (before[v] \intersect waiting) \ tail]
  BY DEF Store
<1> HIDE DEF rows
<1>4. Places' = [Places EXCEPT ![u] = PlaceOf(q.status)]
  <2>1. \A v \in Users : Places'[v] = IF v = u THEN PlaceOf(q.status) ELSE Places[v]
    BY <1>1, <1>2, PlacesAre
  <2> QED
    BY <2>1 DEF Places
<1>5. [v \in Users |-> row[v].guests]' = [[v \in Users |-> row[v].guests] EXCEPT ![u] = 0]
  BY <1>1, <1>2
<1>6. waiting \ {u} = Waitlist \ {u} /\ (u \in waiting <=> q.status = "waitlist")
  BY <1>1 DEF Waitlist
<1> HIDE DEF waiting
<1>7. ASSUME NEW v \in Users, v # u
      PROVE  before'[v] = before[v] \ {u}
  <2>1. CASE v \notin Waitlist
    BY <2>1, <1>3, <1>6, <1>7 DEF QueueIsOrdered
  <2>2. CASE v \in Waitlist
    <3>1. before[v] \subseteq Waitlist
      BY <2>2 DEF QueueIsOrdered
    <3> QED
      BY <2>2, <3>1, <1>3, <1>6, <1>7
  <2> QED
    BY <2>1, <2>2
<1>8. before'[u] = IF q.status = "waitlist" THEN Waitlist \ {u} ELSE {}
  BY <1>3, <1>6
<1>9. PlaceOf(q.status) = "queue" <=> q.status = "waitlist"
  BY DEF PlaceOf, MainStatuses
<1>10. before' = [v \in Users |-> IF v = u THEN (IF PlaceOf(q.status) = "queue"
                                                  THEN Waitlist \ {u} ELSE {})
                                            ELSE before[v] \ {u}]
  BY <1>3, <1>7, <1>8, <1>9
<1>11. SB!Queue = Waitlist
  BY BookSets
<1> QED
  BY <1>4, <1>5, <1>10, <1>11 DEF SB!Move, Places

(* The row of one member is written, and he stays where he was. *)
LEMMA BookStay ==
    ASSUME Typed, QueueIsOrdered, NEW u \in Users, NEW q \in Rows,
           PlaceOf(q.status) = PlaceOf(row[u].status), q.status # "waitlist",
           Store([row EXCEPT ![u] = q], {})
    PROVE  /\ Places' = Places /\ before' = before
           /\ [v \in Users |-> row[v].guests]' =
                [[v \in Users |-> row[v].guests] EXCEPT ![u] = q.guests]
<1> DEFINE rows == [row EXCEPT ![u] = q]
           waiting == {v \in Users : rows[v].status = "waitlist"}
<1>1. /\ row \in [Users -> Rows] /\ before \in [Users -> SUBSET Users]
      /\ rows[u] = q /\ \A v \in Users \ {u} : rows[v] = row[v]
  BY DEF Typed, TypeOK
<1>2. row' = rows
  BY DEF Store
<1>3. before' = [v \in Users |-> IF v \notin waiting THEN {} ELSE before[v] \intersect waiting]
  BY DEF Store
<1>4. waiting = Waitlist
  BY <1>1 DEF Waitlist, PlaceOf, MainStatuses
<1> HIDE DEF rows, waiting
<1>5. Places' = Places
  <2>1. \A v \in Users : Places'[v] = Places[v]
    BY <1>1, <1>2, PlacesAre
  <2> QED
    BY <2>1 DEF Places
<1>6. \A v \in Users : before'[v] = before[v]
  BY <1>3, <1>4 DEF QueueIsOrdered
<1> QED
  BY <1>1, <1>2, <1>3, <1>5, <1>6

-----------------------------------------------------------------------------
(* One handler at a time; nobody drives or rides along, because those       *)
(* upserts do not ask the limit; and whoever can cancel the event need fear *)
(* neither a manual addition, which does not ask whether it is cancelled,   *)
(* nor a restart before the table of the cancelled event is cleared.        *)
ByTheBook ==
    /\ OneTask
    /\ Handlers \intersect {"driver", "passenger", "manual_carpool"} = {}
    /\ "delete" \in Handlers => Handlers \intersect {"manual_add", "restart"} = {}

CarLabels == {"demote_riders", "remove_riders", "drive_write", "drive_manual", "ensure_driver",
              "ride_write", "ride_manual", "ensure_rider"}
NoCars == \A u \in Users : row[u].status \notin {"driver", "passenger"}

(* What handler t has read is still so. *)
Informed(t) ==
    LET j == job[t]
    IN  /\ j.pc \notin CarLabels
        /\ j.pc \in {"write_going", "write_seeker", "promote_write", "pick_select", "pick_write"}
             => HasRoom
        /\ j.pc \in {"demote_write", "seek_on", "seek_off", "guest_check", "guest_write"}
             => j.who \in Main
        /\ j.pc = "remove_write" => Exists(j.who)
        /\ j.pc \in {"guest_check", "guest_write"} => j.old = row[j.who].guests
        /\ j.pc = "guest_write" => GuestsFit(j.num, j.old)
        /\ j.pc = "pick_write" => j.tgt \in Waitlist

(* Nobody is left on a closed list that handler t is not about to clear. *)
Settled(t) ==
    /\ \/ active
       \/ job[t].pc = "cancel_clear"
       \/ job[t].pc \in {"idle", "cancel_mark"} /\ \A u \in Users : ~Exists(u)
    /\ ~active \/ job[t].pc \in {"cancel_mark", "cancel_clear"} => "delete" \in Handlers
    /\ job[t].pc = "cancel_clear" => ~active

Booked == NoCars /\ \A t \in Tasks : Informed(t) /\ Settled(t)

(* The seats taken can be counted. *)
LEMMA OccupiedType == Typed => Occupied \in Nat /\ limit \in Int
BY TokensFinite, FS_Subset, FS_CardinalityType, ParticipationAssumption DEF Occupied, Typed, TypeOK

(* What a handler read stays true until it writes. *)
LEMMA BookedNext == ByTheBook /\ Typed /\ Booked /\ [Next]_vars => Booked'
<1> SUFFICES ASSUME ByTheBook, Typed, Booked, [Next]_vars
             PROVE  Booked'
  OBVIOUS
<1> USE DEF At, Run, Begin, Aim, Goto, Done, Handler, Idle
<1> DEFINE Goal(t) == NoCars' /\ Informed(t)' /\ Settled(t)'
<1>a. /\ job \in [Tasks -> Jobs] /\ row \in [Users -> Rows] /\ \A t \in Tasks : JobOK(job[t])
      /\ NoCars /\ \A t \in Tasks : Informed(t) /\ Settled(t)
  BY DEF Typed, TypeOK, Booked
<1>b. ASSUME NEW t \in Tasks, Goal(t)
      PROVE  Booked'
  BY <1>b DEF ByTheBook, OneTask, Booked
<1>c. UNCHANGED table => /\ NoCars' /\ Main' = Main /\ Waitlist' = Waitlist
                         /\ Occupied' = Occupied /\ row' = row
                         /\ \A u \in Users : Exists(u)' = Exists(u)
  BY <1>a DEF table, NoCars, Main, Waitlist, Occupied, SeatsTaken, Exists
<1>d. ASSUME NEW u \in Users, NEW q, NEW tail, Store([row EXCEPT ![u] = q], tail),
             q.status \notin {"driver", "passenger"}
      PROVE  NoCars'
  BY <1>a, <1>d DEF Store, NoCars
<1>e. ASSUME NEW t \in Tasks, NoCars', active', job'[t].pc \in {"idle", "pick_check", "notify"}
      PROVE  Goal(t)
  BY <1>e DEF Informed, CarLabels, Settled
<1>f. ASSUME NEW t \in Tasks, Work(t), ~CancelMark(t), ~CancelClear(t)
      PROVE  active /\ UNCHANGED event
  <2>1. UNCHANGED event /\ job[t].pc \notin {"idle", "cancel_mark", "cancel_clear"}
    BY <1>f
    DEF event, Work, InsertSnapshot, InsertWrite, InsertReserve, PromoteSnapshot, PromoteWrite,
        DemoteRiders, DemoteWrite, RemoveRiders, RemoveWrite, PickCheck, PickSelect, PickWrite,
        NotifyPromoted, GuestCheck, GuestWrite, SeekWrite, DriveWrite, RideWrite, EnsureMain
  <2> QED
    BY <2>1, <1>a DEF Settled
<1>g. \A s \in {"going", "ride_seeker", "waitlist", "none"} :
        Fresh(s).status \notin {"driver", "passenger"}
  BY DEF Fresh
<1> HIDE DEF Goal
<1>1. ASSUME NEW t \in Tasks, NEW u \in Users,
             JoinClick(t, u) \/ ReserveClick(t, u) \/ DeclineClick(t, u) \/ SeekClick(t, u)
             \/ ManualAdd(t, u)
      PROVE  Goal(t)
  <2>1. /\ UNCHANGED event /\ UNCHANGED table
        /\ job[t].pc = "idle" /\ job'[t].who = u /\ job'[t].pc \notin {"cancel_mark", "cancel_clear"}
    BY <1>1, <1>a DEF JoinClick, ReserveClick, DeclineClick, SeekClick, ManualAdd, Start
  <2>2. Informed(t)'
    BY <2>1, <1>1, <1>a, <1>c
    DEF JoinClick, ReserveClick, DeclineClick, SeekClick, ManualAdd, Informed, CarLabels, NoCars,
        Main, MainStatuses
  <2>3. active
    BY <2>1, <1>1, <1>a
    DEF JoinClick, ReserveClick, DeclineClick, SeekClick, ManualAdd, Start, Settled, ByTheBook
  <2> QED
    BY <2>1, <2>2, <2>3, <1>c DEF event, Settled, Goal
<1>2. ASSUME NEW t \in Tasks, NEW u \in Users, NEW g \in 0..MaxGuests, GuestsMessage(t, u, g)
      PROVE  Goal(t)
  <2>1. UNCHANGED event /\ UNCHANGED table /\ job[t].pc = "idle"
    BY <1>2 DEF GuestsMessage, Start
  <2>2. CASE active /\ u \in Main /\ Run(t, Handler("guest_check", u, NoUser, g, row[u].guests))
    <3>1. Informed(t)'
      BY <2>1, <2>2, <1>a, <1>c DEF Informed, CarLabels
    <3> QED
      BY <3>1, <2>1, <2>2, <1>a, <1>c DEF event, Settled, Goal
  <2>3. CASE UNCHANGED job
    <3>1. Informed(t)'
      BY <2>1, <2>3, <1>a, <1>c DEF Informed, CarLabels
    <3> QED
      BY <3>1, <2>1, <2>3, <1>a, <1>c DEF event, Settled, Goal
  <2> QED
    BY <2>2, <2>3, <1>2 DEF GuestsMessage
<1>3. ASSUME NEW t \in Tasks, NEW u \in Users, GuestsClick(t, u)
      PROVE  Goal(t)
  <2>1. UNCHANGED event /\ UNCHANGED table /\ UNCHANGED job /\ job[t].pc = "idle"
    BY <1>3 DEF GuestsClick, Start
  <2> QED
    BY <2>1, <1>a, <1>c DEF event, Informed, CarLabels, Settled, Goal
<1>4. ASSUME NEW t \in Tasks, NEW u \in Users,
             \/ DriverClick(t, u) \/ PassengerClick(t, u)
             \/ \E n \in 1..MaxSeats : SeatsMessage(t, u, n) \/ ManualDriver(t, u, n)
             \/ \E d \in Users : ChooseDriver(t, u, d) \/ ManualPassenger(t, u, d)
      PROVE  FALSE
  BY <1>4
  DEF ByTheBook, DriverClick, PassengerClick, SeatsMessage, ManualDriver, ChooseDriver,
      ManualPassenger, Start
<1>5. ASSUME NEW t \in Tasks, NEW l \in Limits, EditLimit(t, l)
      PROVE  Goal(t)
  <2>1. UNCHANGED active /\ UNCHANGED table /\ UNCHANGED job /\ job[t].pc = "idle"
    BY <1>5 DEF EditLimit, Start
  <2> QED
    BY <2>1, <1>a, <1>c DEF Informed, CarLabels, Settled, Goal
<1>6. ASSUME NEW t \in Tasks, DeleteClick(t) \/ CancelMark(t)
      PROVE  Goal(t)
  <2>1. UNCHANGED table /\ job'[t].pc \in {"cancel_mark", "cancel_clear"}
    BY <1>6, <1>a DEF DeleteClick, CancelMark
  <2>2. Informed(t)'
    BY <2>1 DEF Informed, CarLabels
  <2>3. Settled(t)'
    BY <1>6, <1>a, <1>c DEF DeleteClick, CancelMark, Start, event, Settled
  <2> QED
    BY <2>1, <2>2, <2>3, <1>c DEF Goal
<1>7. ASSUME NEW t \in Tasks, CancelClear(t)
      PROVE  Goal(t)
  <2>1. job'[t].pc = "idle" /\ \A u \in Users : row'[u] = NoRow
    BY <1>7, <1>a DEF CancelClear, Store
  <2>2. Settled(t)'
    BY <2>1, <1>7, <1>a DEF CancelClear, event, Settled, Exists, NoRow, Fresh
  <2>3. NoCars' /\ Informed(t)'
    BY <2>1 DEF NoCars, NoRow, Fresh, Informed, CarLabels
  <2> QED
    BY <2>2, <2>3 DEF Goal
<1>8. ASSUME NEW t \in Tasks,
             InsertWrite(t) \/ InsertReserve(t) \/ PromoteWrite(t) \/ DemoteWrite(t) \/ RemoveWrite(t)
      PROVE  Goal(t)
  <2>1. job[t].who \in Users
    BY <1>8, <1>a DEF InsertWrite, InsertReserve, PromoteWrite, DemoteWrite, RemoveWrite, JobOK
  <2>2. \/ UNCHANGED table
        \/ \E s \in {"going", "ride_seeker", "waitlist", "none"}, tail \in {{}, {job[t].who}} :
             Store([row EXCEPT ![job[t].who] = Fresh(s)], tail)
    BY <1>8 DEF InsertWrite, InsertReserve, PromoteWrite, DemoteWrite, RemoveWrite, NoRow
  <2>3. NoCars'
    BY <2>1, <2>2, <1>c, <1>d, <1>g
  <2>4. active' /\ job'[t].pc \in {"idle", "pick_check"}
    <3>1. job'[t].pc \in {"idle", "pick_check"} /\ ~CancelMark(t) /\ ~CancelClear(t)
      BY <1>8, <1>a
      DEF InsertWrite, InsertReserve, PromoteWrite, DemoteWrite, RemoveWrite, CancelMark, CancelClear
    <3> QED
      BY <3>1, <1>8, <1>f DEF Work, event
  <2> QED
    BY <2>3, <2>4, <1>e
<1>9. ASSUME NEW t \in Tasks, PickWrite(t) \/ GuestWrite(t) \/ SeekWrite(t)
      PROVE  Goal(t)
  <2>1. job[t].who \in Users /\ (PickWrite(t) => job[t].tgt \in Users)
    BY <1>9, <1>a DEF PickWrite, GuestWrite, SeekWrite, JobOK
  <2>2. \/ UNCHANGED table
        \/ PickWrite(t) /\ Store([row EXCEPT ![job[t].tgt] = AsPromoted(row[job[t].tgt])], {})
        \/ Store([row EXCEPT ![job[t].who] = AsHost(row[job[t].who], job[t].num)], {})
        \/ \E s \in {"going", "ride_seeker"} :
             Store([row EXCEPT ![job[t].who] = AsSeeker(row[job[t].who], s)], {})
    BY <1>9 DEF PickWrite, GuestWrite, SeekWrite
  <2>3. NoCars'
    <3>1. CASE Store([row EXCEPT ![job[t].who] = AsHost(row[job[t].who], job[t].num)], {})
      BY <2>1, <3>1, <1>a, <1>d DEF AsHost, NoCars
    <3>2. CASE PickWrite(t) /\ Store([row EXCEPT ![job[t].tgt] = AsPromoted(row[job[t].tgt])], {})
      BY <2>1, <3>2, <1>d DEF AsPromoted
    <3>3. CASE \E s \in {"going", "ride_seeker"} :
                 Store([row EXCEPT ![job[t].who] = AsSeeker(row[job[t].who], s)], {})
      BY <2>1, <3>3, <1>d DEF AsSeeker
    <3> QED
      BY <2>2, <3>1, <3>2, <3>3, <1>c
  <2>4. active' /\ job'[t].pc \in {"idle", "notify"}
    <3>1. job'[t].pc \in {"idle", "notify"} /\ ~CancelMark(t) /\ ~CancelClear(t)
      BY <1>9, <1>a DEF PickWrite, GuestWrite, SeekWrite, CancelMark, CancelClear
    <3> QED
      BY <3>1, <1>9, <1>f DEF Work, event
  <2> QED
    BY <2>3, <2>4, <1>e
<1>10. ASSUME NEW t \in Tasks,
              InsertSnapshot(t) \/ PromoteSnapshot(t) \/ PickCheck(t) \/ PickSelect(t)
              \/ NotifyPromoted(t) \/ GuestCheck(t)
       PROVE  Goal(t)
  <2>1. UNCHANGED table /\ active /\ UNCHANGED event
    BY <1>10, <1>f
    DEF Work, InsertSnapshot, PromoteSnapshot, PickCheck, PickSelect, NotifyPromoted, GuestCheck,
        CancelMark, CancelClear
  <2>2. HasRoom' = HasRoom /\ (~PickFull => HasRoom)
    BY <2>1, <1>c, OccupiedType DEF HasRoom, PickFull, event
  <2>3. Informed(t)'
    <3>1. CASE InsertSnapshot(t) \/ PromoteSnapshot(t) \/ PickCheck(t) \/ NotifyPromoted(t)
      BY <3>1, <2>2, <1>a
      DEF InsertSnapshot, PromoteSnapshot, PickCheck, NotifyPromoted, Informed, CarLabels
    <3>2. CASE PickSelect(t)
      BY <3>2, <2>1, <2>2, <1>a, <1>c DEF PickSelect, FirstOf, Informed, CarLabels
    <3>3. CASE GuestCheck(t)
      BY <3>3, <2>1, <1>a, <1>c DEF GuestCheck, GuestsFit, Informed, CarLabels, event
    <3> QED
      BY <3>1, <3>2, <3>3, <1>10
  <2>4. job'[t].pc \notin {"cancel_mark", "cancel_clear"}
    BY <1>10, <1>a
    DEF InsertSnapshot, PromoteSnapshot, PickCheck, PickSelect, NotifyPromoted, GuestCheck
  <2> QED
    BY <2>1, <2>3, <2>4, <1>c DEF event, Settled, Goal
<1>11. ASSUME NEW t \in Tasks,
              DemoteRiders(t) \/ RemoveRiders(t) \/ DriveWrite(t) \/ RideWrite(t) \/ EnsureMain(t)
       PROVE  FALSE
  BY <1>11, <1>a
  DEF DemoteRiders, RemoveRiders, DriveWrite, RideWrite, EnsureMain, Informed, CarLabels
<1>12. CASE Restart
  BY <1>12, <1>a, <1>b, <1>c
  DEF Restart, ByTheBook, event, Informed, CarLabels, Settled, Goal, Booked
<1>13. CASE UNCHANGED vars
  <2>1. UNCHANGED event /\ UNCHANGED table /\ UNCHANGED job
    BY <1>13 DEF vars, event, table
  <2>2. \A t \in Tasks : Informed(t)'
    BY <2>1, <1>a, <1>c DEF event, Informed, HasRoom, GuestsFit, Exists
  <2>3. \A t \in Tasks : Settled(t)'
    BY <2>1, <1>a, <1>c DEF event, Settled
  <2> QED
    BY <2>1, <2>2, <2>3, <1>c DEF Booked
<1>14. ASSUME NEW t \in Tasks, Update(t)
       PROVE  Goal(t)
  BY <1>14, <1>1, <1>2, <1>3, <1>4, <1>5, <1>6 DEF Update
<1>15. ASSUME NEW t \in Tasks, Work(t)
       PROVE  Goal(t)
  BY <1>15, <1>6, <1>7, <1>8, <1>9, <1>10, <1>11 DEF Work
<1> QED
  BY <1>b, <1>12, <1>13, <1>14, <1>15 DEF Next

(* Every statement is a step of the seat book, every read stutters. *)
LEMMA BookStep ==
    ASSUME ByTheBook, Typed, QueueIsOrdered, Booked, [Next]_vars
    PROVE  [SB!Next]_(SB!vars)
<1> USE DEF At
<1>a. /\ row \in [Users -> Rows] /\ before \in [Users -> SUBSET Users]
      /\ \A t \in Tasks : JobOK(job[t]) /\ Informed(t) /\ Settled(t)
      /\ Occupied \in Nat /\ limit \in Int
  BY OccupiedType DEF Typed, TypeOK, Booked
<1>b. /\ NoRow \in Rows /\ NoRow.guests = 0 /\ NoRow.status = "none"
      /\ \A s \in {"going", "ride_seeker", "waitlist"} :
           Fresh(s) \in Rows /\ Fresh(s).guests = 0 /\ Fresh(s).status = s
  BY FreshType DEF NoRow, Fresh, Statuses, MainStatuses
<1>c. /\ PlaceOf("going") = "in" /\ PlaceOf("ride_seeker") = "in"
      /\ PlaceOf("waitlist") = "queue" /\ PlaceOf("none") = "out"
  BY DEF PlaceOf, MainStatuses
<1>d. \A u \in Users : /\ u \in Main <=> PlaceOf(row[u].status) = "in"
                       /\ u \in Waitlist <=> PlaceOf(row[u].status) = "queue"
                       /\ ~Exists(u) <=> PlaceOf(row[u].status) = "out"
  BY <1>a DEF PlaceOf, Main, Waitlist, Exists, Rows, Statuses, MainStatuses
<1>e. /\ SB!In = Main /\ SB!Queue = Waitlist /\ SB!Taken = Occupied
      /\ \A u \in Users : Places[u] = PlaceOf(row[u].status)
  BY BookSets, PlacesAre
<1>f. HasRoom => SB!Fits(1)
  BY <1>a, <1>e DEF HasRoom, SB!Fits
<1>g. ASSUME UNCHANGED event, UNCHANGED table
      PROVE  UNCHANGED SB!vars
  BY <1>g DEF event, table, SB!vars, Main, Waitlist
<1>h. ASSUME NEW t \in Tasks, Work(t), ~CancelMark(t), ~CancelClear(t)
      PROVE  active /\ UNCHANGED event
  <2>1. UNCHANGED event /\ job[t].pc \notin {"idle", "cancel_mark", "cancel_clear"}
    BY <1>h
    DEF event, Work, InsertSnapshot, InsertWrite, InsertReserve, PromoteSnapshot, PromoteWrite,
        DemoteRiders, DemoteWrite, RemoveRiders, RemoveWrite, PickCheck, PickSelect, PickWrite,
        NotifyPromoted, GuestCheck, GuestWrite, SeekWrite, DriveWrite, RideWrite, EnsureMain
  <2> QED
    BY <2>1, <1>a DEF Settled
<1>i. ASSUME NEW u \in Users, active, UNCHANGED event,
             \/ u \notin Main /\ SB!Fits(1) /\ SB!Move(u, "in")
             \/ u \notin Waitlist /\ SB!Move(u, "queue")
             \/ Exists(u) /\ SB!Move(u, "out")
      PROVE  SB!Next
  BY <1>i, <1>d, <1>e DEF event, SB!Next, SB!Take, SB!Wait, SB!Leave, Places
<1>1. ASSUME NEW t \in Tasks, InsertWrite(t)
      PROVE  [SB!Next]_(SB!vars)
  <2>1. active /\ UNCHANGED event /\ HasRoom
    BY <1>1, <1>a, <1>h DEF Work, InsertWrite, CancelMark, CancelClear, Informed
  <2>2. PICK u \in Users : \/ UNCHANGED table
                           \/ /\ ~Exists(u)
                              /\ \E q \in {Fresh("going"), Fresh("ride_seeker")} :
                                   Store([row EXCEPT ![u] = q], {})
    BY <1>1, <1>a DEF InsertWrite, JobOK
  <2>3. ASSUME ~Exists(u), NEW q \in {Fresh("going"), Fresh("ride_seeker")},
               Store([row EXCEPT ![u] = q], {})
        PROVE  SB!Next
    <3>1. q \in Rows /\ q.guests = 0 /\ q.status # "waitlist" /\ PlaceOf(q.status) = "in"
      BY <2>3, <1>b, <1>c
    <3>2. SB!Move(u, "in")
      BY <2>3, <3>1, BookMove
    <3> QED
      BY <2>1, <2>3, <3>2, <1>c, <1>d, <1>f, <1>i
  <2> QED
    BY <2>1, <2>2, <2>3, <1>g
<1>2. ASSUME NEW t \in Tasks, PromoteWrite(t) \/ PickWrite(t)
      PROVE  [SB!Next]_(SB!vars)
  <2>1. active /\ UNCHANGED event /\ HasRoom
    BY <1>2, <1>a, <1>h DEF Work, PromoteWrite, PickWrite, CancelMark, CancelClear, Informed
  <2>2. PICK u \in Users : \/ UNCHANGED table
                           \/ /\ u \in Waitlist
                              /\ \E q \in {Fresh("going"), AsPromoted(row[u])} :
                                   Store([row EXCEPT ![u] = q], {})
    <3>1. CASE PromoteWrite(t)
      BY <3>1, <1>a DEF PromoteWrite, JobOK
    <3>2. CASE PickWrite(t)
      BY <3>2, <1>a DEF PickWrite, JobOK, Informed
    <3> QED
      BY <3>1, <3>2, <1>2
  <2>3. ASSUME u \in Waitlist, NEW q \in {Fresh("going"), AsPromoted(row[u])},
               Store([row EXCEPT ![u] = q], {})
        PROVE  SB!Next
    <3>1. q \in Rows /\ q.guests = 0 /\ q.status = "going"
      BY <2>3, <1>a, <1>b, ParticipationAssumption DEF AsPromoted, Rows, Statuses, MainStatuses
    <3>2. SB!Move(u, "in")
      BY <2>3, <3>1, <1>c, BookMove
    <3> QED
      BY <2>1, <2>3, <3>2, <1>c, <1>d, <1>f, <1>i
  <2> QED
    BY <2>1, <2>2, <2>3, <1>g
<1>3. ASSUME NEW t \in Tasks, InsertReserve(t) \/ DemoteWrite(t)
      PROVE  [SB!Next]_(SB!vars)
  <2> DEFINE u == job[t].who
  <2>1. u \in Users /\ active /\ UNCHANGED event
    BY <1>3, <1>a, <1>h DEF Work, InsertReserve, DemoteWrite, CancelMark, CancelClear, JobOK
  <2>2. CASE u \notin Waitlist /\ Store([row EXCEPT ![u] = Fresh("waitlist")], {u})
    <3>1. SB!Move(u, "queue")
      BY <2>1, <2>2, <1>b, <1>c, BookMove
    <3> QED
      BY <2>1, <2>2, <3>1, <1>i
  <2>3. UNCHANGED table \/ (u \notin Waitlist /\ Store([row EXCEPT ![u] = Fresh("waitlist")], {u}))
    BY <1>3, <2>1, <1>a, <1>c, <1>d DEF InsertReserve, DemoteWrite, Informed
  <2> QED
    BY <2>1, <2>2, <2>3, <1>g
<1>4. ASSUME NEW t \in Tasks, RemoveWrite(t)
      PROVE  [SB!Next]_(SB!vars)
  <2>1. job[t].who \in Users /\ Exists(job[t].who) /\ active /\ UNCHANGED event
    BY <1>4, <1>a, <1>h DEF Work, RemoveWrite, CancelMark, CancelClear, JobOK, Informed
  <2>2. SB!Move(job[t].who, "out")
    BY <2>1, <1>4, <1>b, <1>c, BookMove DEF RemoveWrite
  <2> QED
    BY <2>1, <2>2, <1>i
<1>5. ASSUME NEW t \in Tasks, GuestWrite(t)
      PROVE  [SB!Next]_(SB!vars)
  <2>0. PICK u \in Users, g \in 0..MaxGuests : u = job[t].who /\ g = job[t].num
    BY <1>5, <1>a DEF GuestWrite, JobOK
  <2>1. /\ u \in Users /\ g \in 0..MaxGuests /\ u \in Main /\ active /\ UNCHANGED event
        /\ GuestsFit(g, row[u].guests) /\ row[u].guests \in 0..MaxGuests
    BY <2>0, <1>5, <1>a, <1>h DEF Work, GuestWrite, CancelMark, CancelClear, JobOK, Informed, Rows
  <2>2. UNCHANGED table \/ Store([row EXCEPT ![u] = AsHost(row[u], g)], {})
    BY <2>0, <1>5 DEF GuestWrite
  <2>3. CASE Store([row EXCEPT ![u] = AsHost(row[u], g)], {})
    <3>1. AsHost(row[u], g) \in Rows /\ AsHost(row[u], g).status = row[u].status
          /\ AsHost(row[u], g).guests = g
      BY <2>1, <1>a, ParticipationAssumption DEF AsHost, Rows
    <3>2. row[u].status # "waitlist"
      BY <2>1 DEF Main, MainStatuses
    <3>3. /\ Places' = Places /\ before' = before
          /\ [v \in Users |-> row[v].guests]' = [[v \in Users |-> row[v].guests] EXCEPT ![u] = g]
      BY <2>1, <2>3, <3>1, <3>2, BookStay
    <3>4. CASE g = row[u].guests
      <4>1. [v \in Users |-> row[v].guests]' = [v \in Users |-> row[v].guests]
        BY <3>3, <3>4
      <4> QED
        BY <3>3, <4>1, <2>1 DEF event, SB!vars, Places
    <3>5. CASE g # row[u].guests
      <4>1. SB!Fits(g - row[u].guests)
        BY <2>1, <3>5, <1>a, <1>e DEF GuestsFit, SB!Fits
      <4>2. [v \in Users |-> row[v].guests][u] = row[u].guests
        BY <2>1
      <4>3. SB!Bring(u, g)
        BY <2>1, <3>3, <3>5, <4>1, <4>2, <1>e DEF event, SB!Bring, Places
      <4> QED
        BY <2>1, <4>3 DEF SB!Next
    <3> QED
      BY <3>4, <3>5
  <2> QED
    BY <2>1, <2>2, <2>3, <1>g
<1>6. ASSUME NEW t \in Tasks, SeekWrite(t)
      PROVE  [SB!Next]_(SB!vars)
  <2> DEFINE u == job[t].who
             s == IF At(t, "seek_on") THEN "ride_seeker" ELSE "going"
             q == AsSeeker(row[u], s)
  <2>1. u \in Users /\ u \in Main /\ UNCHANGED event /\ s \in {"going", "ride_seeker"}
    BY <1>6, <1>a DEF SeekWrite, JobOK, Informed
  <2>2. UNCHANGED table \/ Store([row EXCEPT ![u] = q], {})
    BY <1>6 DEF SeekWrite
  <2>3. q \in Rows /\ q.status = s /\ q.guests = row[u].guests
    BY <2>1, <1>a DEF AsSeeker, Rows, Statuses, MainStatuses
  <2> HIDE DEF u, s, q
  <2>4. CASE Store([row EXCEPT ![u] = q], {})
    <3>1. /\ Places' = Places /\ before' = before
          /\ [v \in Users |-> row[v].guests]' =
               [[v \in Users |-> row[v].guests] EXCEPT ![u] = row[u].guests]
      BY <2>1, <2>3, <2>4, <1>c, <1>d, BookStay
    <3>2. [v \in Users |-> row[v].guests]' = [v \in Users |-> row[v].guests]
      BY <3>1
    <3> QED
      BY <2>1, <3>1, <3>2 DEF event, SB!vars, Places
  <2> QED
    BY <2>1, <2>2, <2>4, <1>g
<1>7. ASSUME NEW t \in Tasks, NEW l \in Limits, EditLimit(t, l)
      PROVE  [SB!Next]_(SB!vars)
  <2>1. SB!Resize(l)
    BY <1>7 DEF EditLimit, table, SB!Resize, Main, Waitlist
  <2> QED
    BY <2>1 DEF SB!Next
<1>8. ASSUME NEW t \in Tasks, CancelMark(t)
      PROVE  [SB!Next]_(SB!vars)
  <2>1. CASE active
    BY <2>1, <1>8 DEF CancelMark, table, SB!Close, SB!Next, Main, Waitlist
  <2>2. CASE ~active
    BY <2>2, <1>8, <1>g DEF CancelMark, event, Typed, TypeOK
  <2> QED
    BY <2>1, <2>2
<1>9. ASSUME NEW t \in Tasks, CancelClear(t)
      PROVE  [SB!Next]_(SB!vars)
  <2>1. ~active /\ UNCHANGED event /\ row' = [u \in Users |-> NoRow]
        /\ before' = [u \in Users |-> {}]
    BY <1>9, <1>a, <1>b DEF CancelClear, Store, Settled
  <2>2. \A u \in Users : Places'[u] = "out"
    BY <2>1, <1>b, <1>c, PlacesAre
  <2>3. Places' = [u \in Users |-> "out"]
    BY <2>2 DEF Places
  <2>4. [u \in Users |-> row[u].guests]' = [u \in Users |-> 0]
    BY <2>1, <1>b
  <2>5. SB!Clear
    BY <2>1, <2>3, <2>4 DEF event, SB!Clear, Places
  <2> QED
    BY <2>5 DEF SB!Next
<1>10. ASSUME NEW t \in Tasks,
              \/ InsertSnapshot(t) \/ PromoteSnapshot(t) \/ PickCheck(t) \/ PickSelect(t)
              \/ NotifyPromoted(t) \/ GuestCheck(t) \/ EnsureMain(t) \/ DeleteClick(t)
              \/ Update(t) /\ ~ \E l \in Limits : EditLimit(t, l)
       PROVE  UNCHANGED event /\ UNCHANGED table
  BY <1>10
  DEF Update, JoinClick, ReserveClick, DeclineClick, GuestsClick, GuestsMessage, SeekClick,
      DriverClick, PassengerClick, SeatsMessage, ManualDriver, ChooseDriver, ManualPassenger,
      ManualAdd, DeleteClick, InsertSnapshot, PromoteSnapshot, PickCheck, PickSelect,
      NotifyPromoted, GuestCheck, EnsureMain, event, table
<1>11. ASSUME NEW t \in Tasks,
              DemoteRiders(t) \/ RemoveRiders(t) \/ DriveWrite(t) \/ RideWrite(t)
       PROVE  FALSE
  BY <1>11, <1>a DEF DemoteRiders, RemoveRiders, DriveWrite, RideWrite, Informed, CarLabels
<1>12. Restart \/ UNCHANGED vars => UNCHANGED event /\ UNCHANGED table
  BY DEF Restart, vars, event, table
<1>13. ASSUME NEW t \in Tasks, Update(t)
       PROVE  [SB!Next]_(SB!vars)
  BY <1>13, <1>7, <1>10, <1>g
<1>14. ASSUME NEW t \in Tasks, Work(t)
       PROVE  [SB!Next]_(SB!vars)
  BY <1>14, <1>1, <1>2, <1>3, <1>4, <1>5, <1>6, <1>8, <1>9, <1>10, <1>11, <1>g DEF Work
<1> QED
  BY <1>12, <1>13, <1>14, <1>g DEF Next

(* What a handler carries agrees with the table at every moment. *)
LEMMA AlwaysBooked ==
    ASSUME ByTheBook
    PROVE  Spec => [](Typed /\ QueueIsOrdered /\ Booked)
<1>1. Init => Booked /\ QueueIsOrdered
  BY DEF Init, Booked, NoCars, Informed, CarLabels, Settled, Exists, NoRow, Fresh, Idle, Handler,
         QueueIsOrdered, Waitlist
<1>2. Typed /\ QueueIsOrdered /\ Booked /\ [Next]_vars => Typed' /\ QueueIsOrdered' /\ Booked'
  BY NextTyped, QueueNext, BookedNext
<1> QED
  BY <1>1, <1>2, InitTyped, PTL DEF Spec

(* One handler at a time the roster is the seat book: a place is taken, and  *)
(* guests are added, only within the limit and while the event takes place,  *)
(* a new name goes to the end of the queue, and nothing else moves anybody.  *)
THEOREM SeatBookIsImplemented ==
    ASSUME ByTheBook
    PROVE  Spec => ImplementsSeatBook
<1>1. Init => SB!Init
  BY DEF Init, SB!Init, NoRow, Fresh, Main, Waitlist, MainStatuses
<1>2. Typed /\ QueueIsOrdered /\ Booked /\ [Next]_vars => [SB!Next]_(SB!vars)
  BY BookStep
<1> QED
  BY <1>1, <1>2, AlwaysBooked, PTL DEF Spec, ImplementsSeatBook, SB!Spec

-----------------------------------------------------------------------------
(* What the book says of its limit, read back in the table: the seats taken  *)
(* grow only where they fit.                                                 *)

(* Seats can be counted, before a step and after it. *)
LEMMA SeatsCounted ==
    /\ IsFiniteSet(SeatsTaken) /\ IsFiniteSet(SeatsTaken')
    /\ Occupied \in Nat /\ Occupied' \in Nat
<1>1. IsFiniteSet(Users) /\ IsFiniteSet(0..MaxGuests)
  BY ParticipationAssumption, FS_Interval
<1>2. IsFiniteSet(Users \X (0..MaxGuests))
  BY <1>1, FS_Product
<1>3. SeatsTaken \subseteq Users \X (0..MaxGuests) /\ SeatsTaken' \subseteq Users \X (0..MaxGuests)
  BY DEF SeatsTaken
<1>4. IsFiniteSet(SeatsTaken) /\ IsFiniteSet(SeatsTaken')
  BY <1>2, <1>3, FS_Subset
<1> QED
  BY <1>4, FS_CardinalityType DEF Occupied

(* No more seats are taken than those that are new. *)
LEMMA SeatsAdded ==
    ASSUME NEW new, IsFiniteSet(new), SeatsTaken' \subseteq SeatsTaken \union new
    PROVE  Cardinality(new) \in Nat /\ Occupied' <= Occupied + Cardinality(new)
<1>1. IsFiniteSet(SeatsTaken \union new) /\ IsFiniteSet(SeatsTaken \intersect new)
  BY SeatsCounted, FS_Union, FS_Intersection
<1>2. /\ Cardinality(new) \in Nat
      /\ Cardinality(SeatsTaken \union new) \in Nat /\ Cardinality(SeatsTaken \intersect new) \in Nat
  BY <1>1, FS_CardinalityType
<1>3. Cardinality(SeatsTaken \union new)
        = Cardinality(SeatsTaken) + Cardinality(new) - Cardinality(SeatsTaken \intersect new)
  BY SeatsCounted, FS_Union
<1>4. Cardinality(SeatsTaken') <= Cardinality(SeatsTaken \union new)
  BY <1>1, FS_Subset
<1> QED
  BY <1>2, <1>3, <1>4, SeatsCounted DEF Occupied

(* The guests a member brings besides those he has. *)
LEMMA MoreGuestSeats ==
    ASSUME NEW u, NEW old \in Nat, NEW g \in Nat, old < g
    PROVE  /\ IsFiniteSet({<<u, i>> : i \in (old + 1)..g})
           /\ Cardinality({<<u, i>> : i \in (old + 1)..g}) = g - old
<1> DEFINE f == [i \in (old + 1)..g |-> <<u, i>>]
           S == {<<u, i>> : i \in (old + 1)..g}
<1>1. f \in Injection((old + 1)..g, S) /\ f \in Surjection((old + 1)..g, S)
  BY DEF Injection, IsInjective, Surjection
<1>2. IsFiniteSet((old + 1)..g) /\ Cardinality((old + 1)..g) = g - old
  BY FS_Interval
<1> HIDE DEF f, S
<1>3. IsFiniteSet(S) /\ Cardinality(S) = g - old
  BY <1>1, <1>2, FS_Surjection
<1> QED
  BY <1>3 DEF S

(* The members the book moves about, and their guests, are those of the table. *)
LEMMA BookRows ==
    ASSUME NEW u \in Users, NEW p
    PROVE  /\ SB!Move(u, p) =>
                /\ Places'[u] = p /\ row'[u].guests = 0
                /\ \A v \in Users \ {u} : Places'[v] = Places[v] /\ row'[v].guests = row[v].guests
           /\ \A v \in Users : (v \in Main <=> Places[v] = "in") /\ (v \in Main' <=> Places'[v] = "in")
<1>1. ASSUME SB!Move(u, p)
      PROVE  /\ Places'[u] = p /\ row'[u].guests = 0
             /\ \A v \in Users \ {u} : Places'[v] = Places[v] /\ row'[v].guests = row[v].guests
  <2>1. Places' = [Places EXCEPT ![u] = p]
    BY <1>1 DEF SB!Move, Places
  <2>2. [v \in Users |-> row[v].guests]' = [[v \in Users |-> row[v].guests] EXCEPT ![u] = 0]
    BY <1>1 DEF SB!Move
  <2>3. \A v \in Users : row'[v].guests = IF v = u THEN 0 ELSE row[v].guests
    BY <2>2
  <2>4. \A v \in Users : Places'[v] = IF v = u THEN p ELSE Places[v]
    BY <2>1 DEF Places
  <2> QED
    BY <2>3, <2>4
<1>2. \A v \in Users : (v \in Main <=> Places[v] = "in") /\ (v \in Main' <=> Places'[v] = "in")
  BY PlacesAre DEF PlaceOf, Main, MainStatuses
<1> QED
  BY <1>1, <1>2

(* The book takes a place, or guests, only while they fit. *)
LEMMA BookGrows ==
    ASSUME Typed, Typed', SB!Next, Occupied' > Occupied
    PROVE  limit <= 0 \/ Occupied' <= limit
<1>a. /\ limit \in Int
      /\ \A u \in Users : row[u].guests \in 0..MaxGuests /\ row'[u].guests \in 0..MaxGuests
  BY ParticipationAssumption DEF Typed, TypeOK, Rows
<1>b. SB!Taken = Occupied /\ SB!In = Main
  BY BookSets
<1>c. ASSUME SeatsTaken' \subseteq SeatsTaken
      PROVE  FALSE
  <2>1. SeatsTaken' \subseteq SeatsTaken \union {} /\ IsFiniteSet({}) /\ Cardinality({}) = 0
    BY <1>c, FS_EmptySet
  <2> QED
    BY <2>1, SeatsAdded, SeatsCounted
<1>d. ASSUME \A v \in Users : (v \in Main' => v \in Main) /\ row'[v].guests <= row[v].guests,
             \A v \in Users : row'[v].guests \in 0..MaxGuests
      PROVE  FALSE
  <2>1. ASSUME NEW v \in Users, NEW i \in 0..MaxGuests, v \in Main', i <= row'[v].guests
        PROVE  v \in Main /\ i <= row[v].guests
    <3>1. i \in Int /\ row'[v].guests \in Int /\ row[v].guests \in Int
      BY <1>a, <1>d
    <3> QED
      BY <3>1, <2>1, <1>d
  <2>2. SeatsTaken' \subseteq SeatsTaken
    BY <2>1 DEF SeatsTaken
  <2> QED
    BY <2>2, <1>c
<1>1. ASSUME NEW u \in Users, SB!Take(u)
      PROVE  limit <= 0 \/ Occupied' <= limit
  <2>1. SB!Fits(1) /\ SB!Move(u, "in")
    BY <1>1 DEF SB!Take
  <2>2. SeatsTaken' \subseteq SeatsTaken \union {<<u, 0>>}
    BY <2>1, <1>a, BookRows DEF SeatsTaken
  <2>3. IsFiniteSet({<<u, 0>>}) /\ Cardinality({<<u, 0>>}) = 1
    BY FS_Singleton
  <2> QED
    BY <2>1, <2>2, <2>3, <1>a, <1>b, SeatsAdded, SeatsCounted DEF SB!Fits
<1>2. ASSUME NEW u \in Users, SB!Wait(u) \/ SB!Leave(u)
      PROVE  FALSE
  <2>1. PICK p \in {"queue", "out"} : SB!Move(u, p)
    BY <1>2 DEF SB!Wait, SB!Leave
  <2> QED
    BY <2>1, <1>a, <1>d, BookRows
<1>3. ASSUME NEW u \in Users, NEW g \in 0..MaxGuests, SB!Bring(u, g)
      PROVE  limit <= 0 \/ Occupied' <= limit
  <2>1. /\ [v \in Users |-> row[v].guests]' = [[v \in Users |-> row[v].guests] EXCEPT ![u] = g]
        /\ Places' = Places
        /\ SB!Fits(g - [v \in Users |-> row[v].guests][u])
    BY <1>3 DEF SB!Bring, Places
  <2>2. /\ \A v \in Users : row'[v].guests = IF v = u THEN g ELSE row[v].guests
        /\ \A v \in Users : v \in Main' <=> v \in Main
    BY <2>1, BookRows
  <2>3. limit <= 0 \/ Occupied + (g - row[u].guests) <= limit
    BY <2>1, <1>b DEF SB!Fits
  <2>4. g \in Nat /\ row[u].guests \in Nat
    BY <1>a, ParticipationAssumption
  <2>5. CASE g <= row[u].guests
    BY <2>2, <2>4, <2>5, <1>a, <1>d
  <2>6. CASE row[u].guests < g
    <3> DEFINE new == {<<u, i>> : i \in (row[u].guests + 1)..g}
    <3>1. IsFiniteSet(new) /\ Cardinality(new) = g - row[u].guests
      BY <2>4, <2>6, MoreGuestSeats
    <3>2. SeatsTaken' \subseteq SeatsTaken \union new
      BY <2>2, <2>4, <1>a DEF SeatsTaken
    <3>3. PICK seats : seats = new
      OBVIOUS
    <3> HIDE DEF new
    <3> QED
      BY <3>1, <3>2, <3>3, <2>3, <2>4, <1>a, SeatsAdded, SeatsCounted
  <2> QED
    BY <2>4, <2>5, <2>6
<1>4. ASSUME \/ SB!Clear \/ SB!Close \/ \E l \in Limits : SB!Resize(l)
      PROVE  FALSE
  <2>1. CASE SB!Clear
    <3>1. Places' = [v \in Users |-> "out"]
      BY <2>1 DEF SB!Clear, Places
    <3>2. \A v \in Users : v \notin Main'
      BY <3>1, BookRows
    <3> QED
      BY <3>2, <1>c DEF SeatsTaken
  <2>2. CASE SB!Close \/ \E l \in Limits : SB!Resize(l)
    <3>1. /\ Places' = Places
          /\ [v \in Users |-> row[v].guests]' = [v \in Users |-> row[v].guests]
      BY <2>2 DEF SB!Close, SB!Resize, Places
    <3>2. \A v \in Users : row'[v].guests = row[v].guests /\ (v \in Main' <=> v \in Main)
      BY <3>1, BookRows
    <3> QED
      BY <3>2, <1>a, <1>d
  <2> QED
    BY <1>4, <2>1, <2>2
<1> QED
  BY <1>1, <1>2, <1>3, <1>4 DEF SB!Next

(* So does the roster: it is the book, and what the book does not see leaves *)
(* the main list alone.                                                      *)
LEMMA GrowthStep ==
    ASSUME ByTheBook, Typed, QueueIsOrdered, Booked, [Next]_vars, Occupied' > Occupied
    PROVE  limit <= 0 \/ Occupied' <= limit
<1>1. [SB!Next]_(SB!vars) /\ Typed'
  BY BookStep, NextTyped
<1>2. ASSUME UNCHANGED SB!vars
      PROVE  FALSE
  <2>1. /\ Places' = Places
        /\ [v \in Users |-> row[v].guests]' = [v \in Users |-> row[v].guests]
    BY <1>2 DEF SB!vars, Places
  <2>2. \A v \in Users : row'[v].guests = row[v].guests /\ (v \in Main' <=> v \in Main)
    BY <2>1, BookRows
  <2>3. SeatsTaken' = SeatsTaken
    BY <2>2 DEF SeatsTaken
  <2> QED
    BY <2>3, SeatsCounted DEF Occupied
<1> QED
  BY <1>1, <1>2, BookGrows

(* The main list grows only within the limit: what the docstring of          *)
(* add_participant promises of one insertion holds of every button, message  *)
(* and command, guests and promotions included, while handlers do not        *)
(* overlap and nobody comes by car.                                          *)
THEOREM GrowthIsWithinLimit ==
    ASSUME ByTheBook
    PROVE  Spec => [][Occupied' > Occupied => limit <= 0 \/ Occupied' <= limit]_vars
<1>1. Typed /\ QueueIsOrdered /\ Booked /\ [Next]_vars
        => (Occupied' > Occupied => limit <= 0 \/ Occupied' <= limit)
  BY GrowthStep
<1> QED
  BY <1>1, AlwaysBooked, PTL DEF Spec

(* Only the edit dialogue changes the limit. *)
LEMMA LimitStays ==
    ASSUME "limit" \notin Handlers, [Next]_vars
    PROVE  limit' = limit
<1>1. ASSUME NEW t \in Tasks, Update(t)
      PROVE  limit' = limit
  BY <1>1
  DEF Update, event, JoinClick, ReserveClick, DeclineClick, GuestsClick, GuestsMessage, SeekClick,
      DriverClick, PassengerClick, SeatsMessage, ManualDriver, ChooseDriver, ManualPassenger,
      ManualAdd, EditLimit, Start, DeleteClick
<1>2. ASSUME NEW t \in Tasks, Work(t)
      PROVE  limit' = limit
  BY <1>2
  DEF Work, event, InsertSnapshot, InsertWrite, InsertReserve, PromoteSnapshot, PromoteWrite,
      DemoteRiders, DemoteWrite, RemoveRiders, RemoveWrite, PickCheck, PickSelect, PickWrite,
      NotifyPromoted, GuestCheck, GuestWrite, SeekWrite, DriveWrite, RideWrite, EnsureMain,
      CancelMark, CancelClear
<1>3. Restart \/ UNCHANGED vars => limit' = limit
  BY DEF Restart, vars, event
<1> QED
  BY <1>1, <1>2, <1>3 DEF Next

(* As long as nobody edits the limit, it is therefore respected: what two    *)
(* overlapping presses break, one handler at a time never does.              *)
THEOREM LimitIsRespected ==
    ASSUME ByTheBook, "limit" \notin Handlers
    PROVE  Spec => []LimitRespected
<1>1. Init => LimitRespected
  <2> SUFFICES ASSUME Init PROVE LimitRespected
    OBVIOUS
  <2>1. SeatsTaken = {}
    BY DEF Init, SeatsTaken, Main, MainStatuses, NoRow, Fresh
  <2>2. Occupied = 0 /\ limit \in Int
    BY <2>1, FS_EmptySet, InitTyped, OccupiedType DEF Occupied
  <2> QED
    BY <2>2 DEF LimitRespected
<1>2. Typed /\ QueueIsOrdered /\ Booked /\ LimitRespected /\ [Next]_vars /\ Typed'
        => LimitRespected'
  <2> SUFFICES ASSUME Typed, QueueIsOrdered, Booked, LimitRespected, [Next]_vars, Typed'
               PROVE  LimitRespected'
    OBVIOUS
  <2>1. limit' = limit
    BY LimitStays
  <2>2. Occupied \in Nat /\ Occupied' \in Nat /\ limit \in Int
    BY SeatsCounted, OccupiedType
  <2> QED
    BY <2>1, <2>2, GrowthStep DEF LimitRespected
<1> QED
  BY <1>1, <1>2, AlwaysBooked, PTL DEF Spec

=============================================================================
