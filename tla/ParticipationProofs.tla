------------------------- MODULE ParticipationProofs -------------------------
(***************************************************************************)
(* Proofs about Participation: the variables keep their types, and a row   *)
(* never mixes two roles, whatever handlers overlap.  OverbookingProofs     *)
(* goes on to how far they can overbook, SerialProofs to handlers that run *)
(* one at a time; the lemma about the queue is for the latter.             *)
(***************************************************************************)
EXTENDS Participation, FiniteSetTheorems, TLAPS

(* What a handler in flight carries, by the statement it is about to send. *)
JobOK(j) ==
    /\ j \in Jobs
    /\ j.pc \notin {"idle", "cancel_mark", "cancel_clear"} => j.who \in Users
    /\ j.pc \in {"pick_write", "ride_write", "ride_manual"} => j.tgt \in Users
    /\ j.pc \in {"guest_check", "guest_write"} => j.num \in 0..MaxGuests
    /\ j.pc \in {"drive_write", "drive_manual"} => j.num \in 0..MaxSeats

Typed == TypeOK /\ \A t \in Tasks : JobOK(job[t])

(* Every statement that writes rows of the right type leaves a queue. *)
LEMMA StoreType ==
    ASSUME Typed, NEW rows \in [Users -> Rows], NEW tail \in SUBSET Users, Store(rows, tail)
    PROVE  /\ row' \in [Users -> Rows] /\ before' \in [Users -> SUBSET Users]
           /\ offered' \in [Users -> 0..MaxSeats]
<1>1. \A d \in Users : rows[d].seats \in 0..MaxSeats /\ offered[d] \in 0..MaxSeats
  BY DEF Typed, TypeOK, Rows
<1>2. offered' \in [Users -> 0..MaxSeats]
  BY <1>1 DEF Store
<1> QED
  BY <1>2 DEF Store, Typed, TypeOK

LEMMA FreshType ==
    ASSUME NEW s \in Statuses
    PROVE  Fresh(s) \in Rows
BY ParticipationAssumption DEF Fresh, Rows

LEMMA RowType ==
    ASSUME NEW r \in Rows, NEW n \in 0..MaxSeats, NEW d \in Users, NEW s \in Statuses,
           NEW g \in 0..MaxGuests
    PROVE  /\ AsPromoted(r) \in Rows /\ AsReleased(r) \in Rows
           /\ AsDriver(r, n) \in Rows /\ AsPassenger(r, d) \in Rows
           /\ AsSeeker(r, s) \in Rows /\ AsHost(r, g) \in Rows
BY ParticipationAssumption
DEF AsPromoted, AsReleased, AsDriver, AsPassenger, AsSeeker, AsHost, Rows, Statuses, MainStatuses

(* A handler that moves on, or starts, carries what it should. *)
LEMMA RunType ==
    ASSUME Typed, NEW t \in Tasks, NEW j, JobOK(j), Run(t, j)
    PROVE  job' \in [Tasks -> Jobs] /\ \A s \in Tasks : JobOK(job'[s])
BY DEF Typed, TypeOK, Run, JobOK

LEMMA DoneType ==
    ASSUME Typed, NEW t \in Tasks, Done(t)
    PROVE  job' \in [Tasks -> Jobs] /\ \A s \in Tasks : JobOK(job'[s])
<1>1. JobOK(Idle)
  BY ParticipationAssumption DEF JobOK, Idle, Handler, Jobs, Labels
<1> QED
  BY <1>1, RunType DEF Done

LEMMA BeginType ==
    ASSUME Typed, NEW t \in Tasks, NEW p \in Labels, NEW u \in Users, Begin(t, p, u),
           p \notin {"pick_write", "ride_write", "ride_manual"}
    PROVE  job' \in [Tasks -> Jobs] /\ \A s \in Tasks : JobOK(job'[s])
<1>1. JobOK(Handler(p, u, NoUser, 0, 0))
  BY ParticipationAssumption DEF JobOK, Handler, Jobs
<1> QED
  BY <1>1, RunType DEF Begin

LEMMA AimType ==
    ASSUME Typed, NEW t \in Tasks, NEW p \in Labels, NEW v \in Users \union {NoUser},
           Aim(t, p, v), job[t].pc \notin {"idle", "cancel_mark", "cancel_clear"},
           p \in {"pick_write", "ride_write", "ride_manual"} => v \in Users,
           p \notin {"guest_check", "guest_write", "drive_write", "drive_manual"}
    PROVE  job' \in [Tasks -> Jobs] /\ \A s \in Tasks : JobOK(job'[s])
<1>1. JobOK(job[t]) /\ job[t] \in Jobs
  BY DEF Typed, JobOK
<1>2. JobOK(Handler(p, job[t].who, v, job[t].num, job[t].old))
  BY <1>1, ParticipationAssumption DEF JobOK, Handler, Jobs
<1> QED
  BY <1>2, RunType DEF Aim

(* Type correctness: one step per action. *)
LEMMA InitTyped == Init => Typed
<1> SUFFICES ASSUME Init
             PROVE  Typed
  OBVIOUS
<1>1. Idle \in Jobs /\ JobOK(Idle)
  BY ParticipationAssumption DEF JobOK, Idle, Handler, Jobs, Labels
<1>2. NoRow \in Rows
  BY FreshType DEF NoRow, Statuses
<1> QED
  BY <1>1, <1>2, ParticipationAssumption DEF Init, Typed, TypeOK

LEMMA NextTyped == Typed /\ [Next]_vars => Typed'
<1> SUFFICES ASSUME Typed, [Next]_vars
             PROVE  Typed'
  OBVIOUS
<1> USE DEF event, table, chat, At
<1> DEFINE Table == /\ row' \in [Users -> Rows] /\ before' \in [Users -> SUBSET Users]
                    /\ offered' \in [Users -> 0..MaxSeats]
           Jobs1 == job' \in [Tasks -> Jobs] /\ \A s \in Tasks : JobOK(job'[s])
           Chat == /\ fsm' \in [Users -> {"none", "guests", "seats"}]
                   /\ offers' \in [Users -> SUBSET Users]
           Event == active' \in BOOLEAN /\ limit' \in Limits
<1>a. SUFFICES Table /\ Jobs1 /\ Chat /\ Event
  BY DEF Typed, TypeOK
<1>b. Typed /\ TypeOK /\ (\A t \in Tasks : job[t] \in Jobs /\ JobOK(job[t]))
      /\ (\A u \in Users : row[u] \in Rows) /\ NoRow \in Rows
  BY FreshType DEF Typed, TypeOK, NoRow, Statuses
<1>c. UNCHANGED event => Event
  BY DEF Typed, TypeOK
<1>d. UNCHANGED table => Table
  BY DEF Typed, TypeOK
<1>e. UNCHANGED chat => Chat
  BY DEF Typed, TypeOK
<1>f. UNCHANGED job => Jobs1
  BY DEF Typed, TypeOK
<1>g. ASSUME NEW t \in Tasks, NEW u \in Users, NEW p \in Labels, Begin(t, p, u),
             p \notin {"pick_write", "ride_write", "ride_manual"}
      PROVE  Jobs1
  BY <1>b, <1>g, BeginType
<1>h. ASSUME NEW t \in Tasks, Done(t)
      PROVE  Jobs1
  BY <1>b, <1>h, DoneType
<1>i. ASSUME NEW rows \in [Users -> Rows], NEW tail \in SUBSET Users, Store(rows, tail)
      PROVE  Table
  BY <1>b, <1>i, StoreType
<1>j. ASSUME NEW u \in Users, NEW r \in Rows, NEW tail \in SUBSET Users,
             Store([row EXCEPT ![u] = r], tail)
      PROVE  Table
  <2>1. [row EXCEPT ![u] = r] \in [Users -> Rows]
    BY <1>b DEF TypeOK
  <2> QED
    BY <2>1, <1>i, <1>j
<1>k. ASSUME NEW t \in Tasks, NEW p \in Labels, Goto(t, p),
             job[t].pc \notin {"idle", "cancel_mark", "cancel_clear"},
             p \notin {"pick_write", "ride_write", "ride_manual", "guest_check",
                       "guest_write", "drive_write", "drive_manual"}
      PROVE  Jobs1
  <2>1. job[t].tgt \in Users \union {NoUser}
    BY <1>b DEF Jobs
  <2> QED
    BY <1>b, <1>k, <2>1, AimType DEF Goto
<1>l. ASSUME NEW t \in Tasks, NEW j, JobOK(j), Run(t, j)
      PROVE  Jobs1
  BY <1>b, <1>l, RunType
<1>m. \A t \in Tasks : job[t].pc \notin {"idle", "cancel_mark", "cancel_clear"}
                         => job[t].who \in Users
  BY <1>b DEF JobOK
<1> HIDE DEF Table, Jobs1, Chat, Event
<1>1. ASSUME NEW t \in Tasks, NEW u \in Users, JoinClick(t, u)
      PROVE  Table /\ Jobs1 /\ Chat /\ Event
  BY <1>1, <1>c, <1>d, <1>e, <1>g DEF JoinClick, Labels
<1>2. ASSUME NEW t \in Tasks, NEW u \in Users, ReserveClick(t, u)
      PROVE  Table /\ Jobs1 /\ Chat /\ Event
  BY <1>2, <1>c, <1>d, <1>e, <1>g DEF ReserveClick, Labels
<1>3. ASSUME NEW t \in Tasks, NEW u \in Users, DeclineClick(t, u)
      PROVE  Table /\ Jobs1 /\ Chat /\ Event
  <2>1. CASE row[u].status = "driver"
    BY <2>1, <1>3, <1>c, <1>d, <1>e, <1>g DEF DeclineClick, Labels
  <2>2. CASE row[u].status # "driver"
    BY <2>2, <1>3, <1>c, <1>d, <1>e, <1>g DEF DeclineClick, Labels
  <2> QED
    BY <2>1, <2>2
<1>4. ASSUME NEW t \in Tasks, NEW u \in Users, GuestsClick(t, u) \/ DriverClick(t, u)
      PROVE  Table /\ Jobs1 /\ Chat /\ Event
  <2>1. Chat
    BY <1>4, <1>b DEF GuestsClick, DriverClick, AskInPrivate, TypeOK, Chat
  <2> QED
    BY <2>1, <1>4, <1>c, <1>d, <1>f DEF GuestsClick, DriverClick
<1>5. ASSUME NEW t \in Tasks, NEW u \in Users, NEW g \in 0..MaxGuests, GuestsMessage(t, u, g)
      PROVE  Table /\ Jobs1 /\ Chat /\ Event
  <2>1. JobOK(Handler("guest_check", u, NoUser, g, row[u].guests))
    BY <1>b, ParticipationAssumption DEF JobOK, Handler, Jobs, Labels, Rows
  <2>2. Chat
    BY <1>5, <1>b DEF GuestsMessage, TypeOK, Chat
  <2> QED
    BY <2>1, <2>2, <1>5, <1>c, <1>d, <1>f, <1>l DEF GuestsMessage
<1>6. ASSUME NEW t \in Tasks, NEW u \in Users, SeekClick(t, u)
      PROVE  Table /\ Jobs1 /\ Chat /\ Event
  BY <1>6, <1>c, <1>d, <1>e, <1>g DEF SeekClick, Labels
<1>7. ASSUME NEW t \in Tasks, NEW u \in Users, PassengerClick(t, u)
      PROVE  Table /\ Jobs1 /\ Chat /\ Event
  <2>1. Chat
    BY <1>7, <1>b DEF PassengerClick, TypeOK, Chat
  <2> QED
    BY <2>1, <1>7, <1>c, <1>d, <1>f DEF PassengerClick
<1>8. ASSUME NEW t \in Tasks, NEW u \in Users, NEW n \in 1..MaxSeats,
             SeatsMessage(t, u, n) \/ ManualDriver(t, u, n)
      PROVE  Table /\ Jobs1 /\ Chat /\ Event
  <2>1. \A p \in {"drive_write", "drive_manual"} : JobOK(Handler(p, u, NoUser, n, 0))
    BY <1>b, ParticipationAssumption DEF JobOK, Handler, Jobs, Labels
  <2> QED
    BY <2>1, <1>8, <1>c, <1>d, <1>e, <1>l DEF SeatsMessage, ManualDriver
<1>9. ASSUME NEW t \in Tasks, NEW u \in Users, NEW d \in Users,
             ChooseDriver(t, u, d) \/ ManualPassenger(t, u, d)
      PROVE  Table /\ Jobs1 /\ Chat /\ Event
  <2>1. \A p \in {"ride_write", "ride_manual"} : JobOK(Handler(p, u, d, 0, 0))
    BY <1>b, ParticipationAssumption DEF JobOK, Handler, Jobs, Labels
  <2> QED
    BY <2>1, <1>9, <1>c, <1>d, <1>e, <1>l DEF ChooseDriver, ManualPassenger
<1>10. ASSUME NEW t \in Tasks, NEW u \in Users, ManualAdd(t, u)
       PROVE  Table /\ Jobs1 /\ Chat /\ Event
  BY <1>10, <1>c, <1>d, <1>e, <1>g DEF ManualAdd, Labels
<1>11. ASSUME NEW t \in Tasks, NEW l \in Limits, EditLimit(t, l)
       PROVE  Table /\ Jobs1 /\ Chat /\ Event
  <2>1. Event
    BY <1>11, <1>b DEF EditLimit, TypeOK, Event
  <2> QED
    BY <2>1, <1>11, <1>d, <1>e, <1>f DEF EditLimit
<1>12. ASSUME NEW t \in Tasks, DeleteClick(t)
       PROVE  Table /\ Jobs1 /\ Chat /\ Event
  <2>1. JobOK(Handler("cancel_mark", NoUser, NoUser, 0, 0))
    BY ParticipationAssumption DEF JobOK, Handler, Jobs, Labels
  <2> QED
    BY <2>1, <1>12, <1>c, <1>d, <1>e, <1>l DEF DeleteClick, Begin
<1>13. ASSUME NEW t \in Tasks, InsertSnapshot(t)
       PROVE  Table /\ Jobs1 /\ Chat /\ Event
  BY <1>13, <1>c, <1>d, <1>e, <1>h, <1>k DEF InsertSnapshot, Labels
<1>14. ASSUME NEW t \in Tasks, InsertWrite(t)
       PROVE  Table /\ Jobs1 /\ Chat /\ Event
  <2>1. job[t].who \in Users
    BY <1>14, <1>m DEF InsertWrite
  <2>2. Fresh(IF At(t, "write_going") THEN "going" ELSE "ride_seeker") \in Rows
    BY FreshType DEF Statuses, MainStatuses
  <2> QED
    BY <2>1, <2>2, <1>14, <1>c, <1>d, <1>e, <1>h, <1>j DEF InsertWrite
<1>15. ASSUME NEW t \in Tasks, InsertReserve(t)
       PROVE  Table /\ Jobs1 /\ Chat /\ Event
  <2>1. job[t].who \in Users
    BY <1>15, <1>m DEF InsertReserve
  <2>2. Fresh("waitlist") \in Rows
    BY FreshType DEF Statuses
  <2> QED
    BY <2>1, <2>2, <1>15, <1>c, <1>d, <1>e, <1>h, <1>j DEF InsertReserve
<1>16. ASSUME NEW t \in Tasks, PromoteSnapshot(t)
       PROVE  Table /\ Jobs1 /\ Chat /\ Event
  BY <1>16, <1>c, <1>d, <1>e, <1>h, <1>k DEF PromoteSnapshot, Labels
<1>17. ASSUME NEW t \in Tasks, PromoteWrite(t)
       PROVE  Table /\ Jobs1 /\ Chat /\ Event
  <2>1. job[t].who \in Users
    BY <1>17, <1>m DEF PromoteWrite
  <2>2. Fresh("going") \in Rows
    BY FreshType DEF Statuses, MainStatuses
  <2> QED
    BY <2>1, <2>2, <1>17, <1>c, <1>d, <1>e, <1>h, <1>j DEF PromoteWrite
<1>18. ASSUME NEW t \in Tasks, DemoteRiders(t)
       PROVE  Table /\ Jobs1 /\ Chat /\ Event
  <2> DEFINE rows == [u \in Users |-> IF u \in Riders(job[t].who) THEN AsReleased(row[u])
                                      ELSE row[u]]
  <2>1. rows \in [Users -> Rows]
    BY <1>b, ParticipationAssumption DEF AsReleased, Rows, Statuses, MainStatuses
  <2>2. Store(rows, {})
    BY <1>18 DEF DemoteRiders
  <2> HIDE DEF rows
  <2> QED
    BY <2>1, <2>2, <1>18, <1>c, <1>e, <1>i, <1>k DEF DemoteRiders, Labels
<1>19. ASSUME NEW t \in Tasks, DemoteWrite(t)
       PROVE  Table /\ Jobs1 /\ Chat /\ Event
  <2>1. job[t].who \in Users
    BY <1>19, <1>m DEF DemoteWrite
  <2>2. Fresh("waitlist") \in Rows
    BY FreshType DEF Statuses
  <2>3. Jobs1
    BY <2>1, <1>19, <1>b, AimType DEF DemoteWrite, Labels, Jobs1
  <2> QED
    BY <2>1, <2>2, <2>3, <1>19, <1>c, <1>d, <1>e, <1>j DEF DemoteWrite
<1>20. ASSUME NEW t \in Tasks, RemoveRiders(t)
       PROVE  Table /\ Jobs1 /\ Chat /\ Event
  <2> DEFINE rows == [u \in Users |-> IF u \in Riders(job[t].who) THEN NoRow ELSE row[u]]
  <2>1. rows \in [Users -> Rows]
    BY <1>b
  <2>2. Store(rows, {})
    BY <1>20 DEF RemoveRiders
  <2> HIDE DEF rows
  <2> QED
    BY <2>1, <2>2, <1>20, <1>c, <1>e, <1>i, <1>k DEF RemoveRiders, Labels
<1>21. ASSUME NEW t \in Tasks, RemoveWrite(t)
       PROVE  Table /\ Jobs1 /\ Chat /\ Event
  <2>1. job[t].who \in Users
    BY <1>21, <1>m DEF RemoveWrite
  <2> QED
    BY <2>1, <1>21, <1>b, <1>c, <1>e, <1>j, <1>k DEF RemoveWrite, Labels
<1>22. ASSUME NEW t \in Tasks, PickCheck(t)
       PROVE  Table /\ Jobs1 /\ Chat /\ Event
  BY <1>22, <1>c, <1>d, <1>e, <1>h, <1>k DEF PickCheck, Labels
<1>23. ASSUME NEW t \in Tasks, PickSelect(t)
       PROVE  Table /\ Jobs1 /\ Chat /\ Event
  <2>1. ASSUME NEW v \in Users, Aim(t, "pick_write", v)
        PROVE  Jobs1
    BY <2>1, <1>23, <1>b, AimType DEF PickSelect, Labels, Jobs1
  <2>2. FirstOf(Waitlist \ {job[t].tgt}) \subseteq Users
    BY DEF FirstOf, Waitlist
  <2> QED
    BY <2>1, <2>2, <1>23, <1>c, <1>d, <1>e, <1>h DEF PickSelect
<1>24. ASSUME NEW t \in Tasks, PickWrite(t)
       PROVE  Table /\ Jobs1 /\ Chat /\ Event
  <2>1. job[t].tgt \in Users
    BY <1>24, <1>b DEF PickWrite, JobOK
  <2>2. AsPromoted(row[job[t].tgt]) \in Rows
    BY <2>1, <1>b, ParticipationAssumption DEF AsPromoted, Rows, Statuses, MainStatuses
  <2> QED
    BY <2>1, <2>2, <1>24, <1>c, <1>d, <1>e, <1>j, <1>k DEF PickWrite, Labels
<1>25. ASSUME NEW t \in Tasks, NotifyPromoted(t)
       PROVE  Table /\ Jobs1 /\ Chat /\ Event
  BY <1>25, <1>c, <1>d, <1>e, <1>h DEF NotifyPromoted
<1>26. ASSUME NEW t \in Tasks, GuestCheck(t)
       PROVE  Table /\ Jobs1 /\ Chat /\ Event
  <2>1. CASE Goto(t, "guest_write")
    <3>1. JobOK(Handler("guest_write", job[t].who, job[t].tgt, job[t].num, job[t].old))
      BY <1>26, <1>b, ParticipationAssumption DEF GuestCheck, JobOK, Handler, Jobs, Labels
    <3> QED
      BY <3>1, <2>1, <1>26, <1>c, <1>d, <1>e, <1>l DEF GuestCheck, Goto, Aim
  <2>2. CASE Done(t)
    BY <2>2, <1>26, <1>c, <1>d, <1>e, <1>h DEF GuestCheck
  <2> QED
    BY <2>1, <2>2, <1>26 DEF GuestCheck
<1>27. ASSUME NEW t \in Tasks, GuestWrite(t)
       PROVE  Table /\ Jobs1 /\ Chat /\ Event
  <2>1. job[t].who \in Users /\ job[t].num \in 0..MaxGuests
    BY <1>27, <1>b DEF GuestWrite, JobOK
  <2>2. AsHost(row[job[t].who], job[t].num) \in Rows
    BY <2>1, <1>b, ParticipationAssumption DEF AsHost, Rows
  <2>3. Chat
    BY <1>27, <1>b DEF GuestWrite, TypeOK, Chat
  <2> QED
    BY <2>1, <2>2, <2>3, <1>27, <1>c, <1>d, <1>h, <1>j DEF GuestWrite
<1>28. ASSUME NEW t \in Tasks, SeekWrite(t)
       PROVE  Table /\ Jobs1 /\ Chat /\ Event
  <2>1. job[t].who \in Users
    BY <1>28, <1>m DEF SeekWrite
  <2>2. \A s \in {"ride_seeker", "going"} : AsSeeker(row[job[t].who], s) \in Rows
    BY <2>1, <1>b, ParticipationAssumption DEF AsSeeker, Rows, Statuses, MainStatuses
  <2> QED
    BY <2>1, <2>2, <1>28, <1>c, <1>d, <1>e, <1>h, <1>j DEF SeekWrite
<1>29. ASSUME NEW t \in Tasks, DriveWrite(t)
       PROVE  Table /\ Jobs1 /\ Chat /\ Event
  <2>1. job[t].who \in Users /\ job[t].num \in 0..MaxSeats
    BY <1>29, <1>b DEF DriveWrite, JobOK
  <2>2. AsDriver(row[job[t].who], job[t].num) \in Rows
    BY <2>1, <1>b, ParticipationAssumption DEF AsDriver, Rows, Statuses, MainStatuses
  <2> QED
    BY <2>1, <2>2, <1>29, <1>c, <1>e, <1>h, <1>j, <1>k DEF DriveWrite, Labels
<1>30. ASSUME NEW t \in Tasks, RideWrite(t)
       PROVE  Table /\ Jobs1 /\ Chat /\ Event
  <2>1. job[t].who \in Users /\ job[t].tgt \in Users
    BY <1>30, <1>b DEF RideWrite, JobOK
  <2>2. AsPassenger(row[job[t].who], job[t].tgt) \in Rows
    BY <2>1, <1>b, ParticipationAssumption DEF AsPassenger, Rows, Statuses, MainStatuses
  <2> QED
    BY <2>1, <2>2, <1>30, <1>c, <1>e, <1>h, <1>j, <1>k DEF RideWrite, Labels
<1>31. ASSUME NEW t \in Tasks, EnsureMain(t)
       PROVE  Table /\ Jobs1 /\ Chat /\ Event
  <2>1. Chat
    BY <1>31, <1>b DEF EnsureMain, TypeOK, Chat
  <2> QED
    BY <2>1, <1>31, <1>c, <1>d, <1>h, <1>k DEF EnsureMain, Labels
<1>32. ASSUME NEW t \in Tasks, CancelMark(t)
       PROVE  Table /\ Jobs1 /\ Chat /\ Event
  <2>1. JobOK(Handler("cancel_clear", job[t].who, job[t].tgt, job[t].num, job[t].old))
    BY <1>b DEF JobOK, Handler, Jobs, Labels
  <2>2. Event
    BY <1>32, <1>b DEF CancelMark, TypeOK, Event
  <2> QED
    BY <2>1, <2>2, <1>32, <1>d, <1>e, <1>l DEF CancelMark, Goto, Aim
<1>33. ASSUME NEW t \in Tasks, CancelClear(t)
       PROVE  Table /\ Jobs1 /\ Chat /\ Event
  <2>1. [u \in Users |-> NoRow] \in [Users -> Rows]
    BY <1>b
  <2> QED
    BY <2>1, <1>33, <1>c, <1>e, <1>h, <1>i DEF CancelClear
<1>34. ASSUME Restart
       PROVE  Table /\ Jobs1 /\ Chat /\ Event
  <2>1. Idle \in Jobs /\ JobOK(Idle)
    BY ParticipationAssumption DEF JobOK, Idle, Handler, Jobs, Labels
  <2>2. Jobs1
    BY <2>1, <1>34 DEF Restart, Jobs1
  <2> QED
    BY <2>2, <1>34, <1>c, <1>d, <1>e DEF Restart
<1>35. ASSUME UNCHANGED vars
       PROVE  Table /\ Jobs1 /\ Chat /\ Event
  BY <1>35, <1>c, <1>d, <1>e, <1>f DEF vars
<1> QED
  BY <1>1, <1>2, <1>3, <1>4, <1>5, <1>6, <1>7, <1>8, <1>9, <1>10, <1>11, <1>12, <1>13, <1>14,
     <1>15, <1>16, <1>17, <1>18, <1>19, <1>20, <1>21, <1>22, <1>23, <1>24, <1>25, <1>26, <1>27,
     <1>28, <1>29, <1>30, <1>31, <1>32, <1>33, <1>34, <1>35
  DEF Next, Update, Work

(* Every variable keeps its type, whatever handlers overlap. *)
THEOREM TypeCorrect == Spec => []TypeOK
<1>1. Typed => TypeOK
  BY DEF Typed
<1> QED
  BY InitTyped, NextTyped, <1>1, PTL DEF Spec

-----------------------------------------------------------------------------
(* What one statement may make of a row: the rows of bot/db/participants.py. *)
RowMove(r, q) ==
    \/ q = r \/ q = NoRow
    \/ q \in {Fresh("going"), Fresh("ride_seeker"), Fresh("waitlist")}
    \/ q = AsReleased(r)
    \/ /\ r.status # "none"
       /\ \/ q = AsPromoted(r)
          \/ \E s \in {"going", "ride_seeker"} : q = AsSeeker(r, s)
          \/ \E g \in 0..MaxGuests : q = AsHost(r, g)
    \/ \E n \in 0..MaxSeats : q = AsDriver(r, n)
    \/ \E d \in Users : q = AsPassenger(r, d)

(* One statement: rows change as RowMove says, and at most one user goes to *)
(* the end of the queue.                                                    *)
Statement(rows, tail) ==
    /\ Store(rows, tail)
    /\ \A u \in Users : RowMove(row[u], rows[u])
    /\ \A u \in Users \ tail : rows[u].status = "waitlist" => row[u].status = "waitlist"
    /\ \A u, v \in tail : u = v

(* An UPDATE, INSERT or DELETE of one user's row is a statement. *)
LEMMA OneRow ==
    ASSUME Typed, NEW u \in Users, NEW q \in Rows, NEW tail \in {{}, {u}},
           Store([row EXCEPT ![u] = q], tail), RowMove(row[u], q),
           q.status = "waitlist" => u \in tail \/ row[u].status = "waitlist"
    PROVE  \E rows \in [Users -> Rows], ends \in SUBSET Users : Statement(rows, ends)
<1> DEFINE rows == [row EXCEPT ![u] = q]
<1>1. rows \in [Users -> Rows] /\ rows[u] = q /\ \A v \in Users \ {u} : rows[v] = row[v]
  BY DEF Typed, TypeOK
<1>2. \A v \in Users : RowMove(row[v], rows[v])
  BY <1>1 DEF RowMove
<1>3. Store(rows, tail)
  OBVIOUS
<1> HIDE DEF rows
<1>4. Statement(rows, tail)
  BY <1>1, <1>2, <1>3 DEF Statement
<1> QED
  BY <1>1, <1>4

(* Every step of the specification is one statement or touches no row. *)
LEMMA TableStep ==
    ASSUME Typed, [Next]_vars
    PROVE  \/ UNCHANGED table
           \/ \E rows \in [Users -> Rows], ends \in SUBSET Users : Statement(rows, ends)
<1> USE DEF At
<1> DEFINE Goal == \/ UNCHANGED table
                   \/ \E rows \in [Users -> Rows], ends \in SUBSET Users : Statement(rows, ends)
<1>a. /\ \A t \in Tasks : JobOK(job[t])
      /\ \A u \in Users : row[u] \in Rows
      /\ NoRow \in Rows /\ NoRow.status # "waitlist"
      /\ \A s \in {"going", "ride_seeker"} : Fresh(s) \in Rows /\ Fresh(s).status # "waitlist"
      /\ Fresh("waitlist") \in Rows
  BY FreshType DEF Typed, TypeOK, NoRow, Fresh, Statuses, MainStatuses
<1>b. \A r \in Rows : /\ AsPromoted(r) \in Rows /\ AsPromoted(r).status # "waitlist"
                      /\ AsReleased(r) \in Rows /\ AsReleased(r).status # "waitlist"
  BY ParticipationAssumption DEF AsPromoted, AsReleased, Rows, Statuses, MainStatuses
<1>c. \A r \in Rows, s \in {"going", "ride_seeker"} :
        AsSeeker(r, s) \in Rows /\ AsSeeker(r, s).status # "waitlist"
  BY DEF AsSeeker, Rows, Statuses, MainStatuses
<1>1. ASSUME NEW t \in Tasks, InsertWrite(t)
      PROVE  Goal
  <2>1. job[t].who \in Users
    BY <1>1, <1>a DEF InsertWrite, JobOK
  <2> DEFINE q == Fresh(IF At(t, "write_going") THEN "going" ELSE "ride_seeker")
  <2>2. q \in Rows /\ q.status # "waitlist" /\ RowMove(row[job[t].who], q)
    BY <1>a DEF RowMove
  <2>3. UNCHANGED table \/ Store([row EXCEPT ![job[t].who] = q], {})
    BY <1>1 DEF InsertWrite
  <2> HIDE DEF q
  <2> QED
    BY <2>1, <2>2, <2>3, OneRow
<1>2. ASSUME NEW t \in Tasks, InsertReserve(t) \/ DemoteWrite(t)
      PROVE  Goal
  <2>1. job[t].who \in Users
    BY <1>2, <1>a DEF InsertReserve, DemoteWrite, JobOK
  <2>2. RowMove(row[job[t].who], Fresh("waitlist"))
    BY DEF RowMove
  <2>3. UNCHANGED table \/ Store([row EXCEPT ![job[t].who] = Fresh("waitlist")], {job[t].who})
    BY <1>2 DEF InsertReserve, DemoteWrite
  <2> QED
    BY <2>1, <2>2, <2>3, <1>a, OneRow
<1>3. ASSUME NEW t \in Tasks, PromoteWrite(t)
      PROVE  Goal
  <2>1. job[t].who \in Users
    BY <1>3, <1>a DEF PromoteWrite, JobOK
  <2>2. RowMove(row[job[t].who], Fresh("going"))
    BY DEF RowMove
  <2>3. UNCHANGED table \/ Store([row EXCEPT ![job[t].who] = Fresh("going")], {})
    BY <1>3 DEF PromoteWrite
  <2> QED
    BY <2>1, <2>2, <2>3, <1>a, OneRow
<1>4. ASSUME NEW t \in Tasks, DemoteRiders(t)
      PROVE  Goal
  <2> DEFINE rows == [u \in Users |-> IF u \in Riders(job[t].who) THEN AsReleased(row[u])
                                      ELSE row[u]]
  <2>1. rows \in [Users -> Rows] /\ Store(rows, {})
    BY <1>4, <1>a, <1>b DEF DemoteRiders
  <2>2. \A u \in Users : RowMove(row[u], rows[u])
    BY DEF RowMove
  <2>3. \A u \in Users : rows[u].status = "waitlist" => row[u].status = "waitlist"
    BY <1>a, <1>b
  <2> HIDE DEF rows
  <2>4. Statement(rows, {})
    BY <2>1, <2>2, <2>3 DEF Statement
  <2> QED
    BY <2>1, <2>4
<1>5. ASSUME NEW t \in Tasks, RemoveRiders(t)
      PROVE  Goal
  <2> DEFINE rows == [u \in Users |-> IF u \in Riders(job[t].who) THEN NoRow ELSE row[u]]
  <2>1. rows \in [Users -> Rows] /\ Store(rows, {})
    BY <1>5, <1>a DEF RemoveRiders
  <2>2. \A u \in Users : RowMove(row[u], rows[u])
    BY DEF RowMove
  <2>3. \A u \in Users : rows[u].status = "waitlist" => row[u].status = "waitlist"
    BY <1>a
  <2> HIDE DEF rows
  <2>4. Statement(rows, {})
    BY <2>1, <2>2, <2>3 DEF Statement
  <2> QED
    BY <2>1, <2>4
<1>6. ASSUME NEW t \in Tasks, RemoveWrite(t)
      PROVE  Goal
  <2>1. job[t].who \in Users
    BY <1>6, <1>a DEF RemoveWrite, JobOK
  <2>2. RowMove(row[job[t].who], NoRow)
    BY DEF RowMove
  <2>3. Store([row EXCEPT ![job[t].who] = NoRow], {})
    BY <1>6 DEF RemoveWrite
  <2> QED
    BY <2>1, <2>2, <2>3, <1>a, OneRow
<1>7. ASSUME NEW t \in Tasks, PickWrite(t)
      PROVE  Goal
  <2>1. job[t].tgt \in Users
    BY <1>7, <1>a DEF PickWrite, JobOK
  <2>2. CASE Exists(job[t].tgt) /\ Store([row EXCEPT ![job[t].tgt] = AsPromoted(row[job[t].tgt])], {})
    <3>1. RowMove(row[job[t].tgt], AsPromoted(row[job[t].tgt]))
      BY <2>2 DEF RowMove, Exists
    <3> QED
      BY <2>1, <2>2, <3>1, <1>a, <1>b, OneRow
  <2> QED
    BY <2>2, <1>7 DEF PickWrite
<1>8. ASSUME NEW t \in Tasks, GuestWrite(t)
      PROVE  Goal
  <2> DEFINE u == job[t].who
             q == AsHost(row[u], job[t].num)
  <2>1. u \in Users /\ job[t].num \in 0..MaxGuests
    BY <1>8, <1>a DEF GuestWrite, JobOK
  <2>2. CASE Exists(u) /\ Store([row EXCEPT ![u] = q], {})
    <3>1. RowMove(row[u], q)
      BY <2>1, <2>2 DEF RowMove, Exists
    <3>2. q \in Rows
      BY <2>1, <1>a, ParticipationAssumption DEF AsHost, Rows
    <3>3. q.status = "waitlist" => row[u].status = "waitlist"
      BY DEF AsHost
    <3> HIDE DEF q
    <3> QED
      BY <2>1, <2>2, <3>1, <3>2, <3>3, OneRow
  <2> QED
    BY <2>2, <1>8 DEF GuestWrite
<1>9. ASSUME NEW t \in Tasks, SeekWrite(t)
      PROVE  Goal
  <2> DEFINE u == job[t].who
             s == IF At(t, "seek_on") THEN "ride_seeker" ELSE "going"
  <2>1. u \in Users /\ s \in {"going", "ride_seeker"}
    BY <1>9, <1>a DEF SeekWrite, JobOK
  <2>2. CASE Exists(u) /\ Store([row EXCEPT ![u] = AsSeeker(row[u], s)], {})
    <3>1. RowMove(row[u], AsSeeker(row[u], s))
      BY <2>1, <2>2 DEF RowMove, Exists
    <3> HIDE DEF s
    <3> QED
      BY <2>1, <2>2, <3>1, <1>a, <1>c, OneRow
  <2> QED
    BY <2>2, <1>9 DEF SeekWrite
<1>10. ASSUME NEW t \in Tasks, DriveWrite(t)
       PROVE  Goal
  <2>1. job[t].who \in Users /\ job[t].num \in 0..MaxSeats
    BY <1>10, <1>a DEF DriveWrite, JobOK
  <2>2. RowMove(row[job[t].who], AsDriver(row[job[t].who], job[t].num))
    BY <2>1 DEF RowMove
  <2>3. Store([row EXCEPT ![job[t].who] = AsDriver(row[job[t].who], job[t].num)], {})
    BY <1>10 DEF DriveWrite
  <2>4. /\ AsDriver(row[job[t].who], job[t].num) \in Rows
        /\ AsDriver(row[job[t].who], job[t].num).status # "waitlist"
    BY <2>1, <1>a, ParticipationAssumption DEF AsDriver, Rows, Statuses, MainStatuses
  <2> QED
    BY <2>1, <2>2, <2>3, <2>4, OneRow
<1>11. ASSUME NEW t \in Tasks, RideWrite(t)
       PROVE  Goal
  <2>1. job[t].who \in Users /\ job[t].tgt \in Users
    BY <1>11, <1>a DEF RideWrite, JobOK
  <2>2. RowMove(row[job[t].who], AsPassenger(row[job[t].who], job[t].tgt))
    BY <2>1 DEF RowMove
  <2>3. Store([row EXCEPT ![job[t].who] = AsPassenger(row[job[t].who], job[t].tgt)], {})
    BY <1>11 DEF RideWrite
  <2>4. /\ AsPassenger(row[job[t].who], job[t].tgt) \in Rows
        /\ AsPassenger(row[job[t].who], job[t].tgt).status # "waitlist"
    BY <2>1, <1>a, ParticipationAssumption DEF AsPassenger, Rows, Statuses, MainStatuses
  <2> QED
    BY <2>1, <2>2, <2>3, <2>4, OneRow
<1>12. ASSUME NEW t \in Tasks, CancelClear(t)
       PROVE  Goal
  <2>1. \A u \in Users : RowMove(row[u], NoRow)
    BY DEF RowMove
  <2>2. Statement([u \in Users |-> NoRow], {})
    BY <2>1, <1>12, <1>a DEF CancelClear, Statement
  <2>3. [u \in Users |-> NoRow] \in [Users -> Rows]
    BY <1>a
  <2> QED
    BY <2>2, <2>3
<1>13. ASSUME NEW t \in Tasks,
              \/ Update(t) \/ InsertSnapshot(t) \/ PromoteSnapshot(t) \/ PickCheck(t)
              \/ PickSelect(t) \/ NotifyPromoted(t) \/ GuestCheck(t) \/ EnsureMain(t)
              \/ CancelMark(t)
       PROVE  UNCHANGED table
  BY <1>13
  DEF Update, JoinClick, ReserveClick, DeclineClick, GuestsClick, GuestsMessage, SeekClick,
      DriverClick, PassengerClick, SeatsMessage, ManualDriver, ChooseDriver, ManualPassenger,
      ManualAdd, EditLimit, DeleteClick, InsertSnapshot, PromoteSnapshot, PickCheck, PickSelect,
      NotifyPromoted, GuestCheck, EnsureMain, CancelMark, table
<1>14. Restart \/ UNCHANGED vars => UNCHANGED table
  BY DEF Restart, vars, table
<1> QED
  BY <1>1, <1>2, <1>3, <1>4, <1>5, <1>6, <1>7, <1>8, <1>9, <1>10, <1>11, <1>12, <1>13, <1>14
  DEF Next, Work

(* A row never mixes two roles, whatever handlers overlap: every statement  *)
(* of the SQL layer makes a row of one role from any row.                   *)
LEMMA RosterShapeNext == Typed /\ RosterShape /\ [Next]_vars => RosterShape'
<1> SUFFICES ASSUME Typed, RosterShape, [Next]_vars
             PROVE  RosterShape'
  OBVIOUS
<1>1. ASSUME NEW r \in Rows, NEW q \in Rows, OneRole(r), RowMove(r, q)
      PROVE  OneRole(q)
  BY <1>1, ParticipationAssumption
  DEF RowMove, OneRole, Rows, Fresh, NoRow, AsPromoted, AsReleased, AsSeeker, AsHost, AsDriver,
      AsPassenger
<1>2. CASE UNCHANGED table
  BY <1>2 DEF table, RosterShape
<1>3. ASSUME NEW rows \in [Users -> Rows], NEW ends \in SUBSET Users, Statement(rows, ends)
      PROVE  RosterShape'
  BY <1>1, <1>3 DEF Statement, Store, RosterShape, Typed, TypeOK
<1> QED
  BY <1>2, <1>3, TableStep

THEOREM RosterShapeCorrect == Spec => []RosterShape
<1>1. Init => RosterShape
  BY DEF Init, RosterShape, OneRole, NoRow, Fresh
<1>2. Typed /\ RosterShape /\ [Next]_vars => Typed' /\ RosterShape'
  BY NextTyped, RosterShapeNext
<1> QED
  BY <1>1, <1>2, InitTyped, PTL DEF Spec

(* What `before` must be to stand for joined_at: of two waiting users one is *)
(* ahead of the other, transitively, and nobody else has a place.            *)
QueueIsOrdered ==
    /\ \A u \in Users : u \notin Waitlist => before[u] = {}
    /\ \A u, v \in Waitlist : u # v => (u \in before[v] <=> v \notin before[u])
    /\ \A u \in Waitlist : /\ u \notin before[u] /\ before[u] \subseteq Waitlist
                           /\ \A v \in before[u] : before[v] \subseteq before[u]

(* A statement moves one user at most, so it leaves such an order.           *)
LEMMA QueueNext == Typed /\ QueueIsOrdered /\ [Next]_vars => QueueIsOrdered'
<1> SUFFICES ASSUME Typed, QueueIsOrdered, [Next]_vars
             PROVE  QueueIsOrdered'
  OBVIOUS
<1>1. CASE UNCHANGED table
  BY <1>1 DEF table, QueueIsOrdered, Waitlist
<1>2. ASSUME NEW rows \in [Users -> Rows], NEW ends \in SUBSET Users, Statement(rows, ends)
      PROVE  QueueIsOrdered'
  <2> DEFINE waiting == {v \in Users : rows[v].status = "waitlist"}
  <2>1. /\ waiting \subseteq Waitlist \union ends
        /\ \A u, v \in ends : u = v
        /\ Waitlist' = waiting
        /\ \A u \in Users : before'[u] =
             IF u \notin waiting THEN {}
             ELSE IF u \in ends THEN waiting \ {u}
             ELSE (before[u] \intersect waiting) \ ends
    BY <1>2 DEF Statement, Store, Waitlist
  <2> HIDE DEF waiting
  <2>2. waiting \subseteq Users /\ Waitlist \subseteq Users
    BY DEF waiting, Waitlist
  <2>3. \A u \in Users : u \notin Waitlist' => before'[u] = {}
    BY <2>1
  <2>4. ASSUME NEW u \in waiting, u \notin ends
        PROVE  u \in Waitlist /\ before'[u] = (before[u] \intersect waiting) \ ends
    BY <2>1, <2>2, <2>4
  <2>5. ASSUME NEW u \in waiting, u \in ends
        PROVE  before'[u] = waiting \ {u} /\ ends = {u}
    BY <2>1, <2>2, <2>5
  <2>6. ASSUME NEW u \in waiting, NEW v \in waiting, u # v
        PROVE  u \in before'[v] <=> v \notin before'[u]
    <3>1. CASE u \in ends
      BY <3>1, <2>4, <2>5, <2>6
    <3>2. CASE v \in ends
      BY <3>2, <2>4, <2>5, <2>6
    <3>3. CASE u \notin ends /\ v \notin ends
      <4>1. u \in before[v] <=> v \notin before[u]
        BY <3>3, <2>4, <2>6 DEF QueueIsOrdered
      <4> QED
        BY <4>1, <3>3, <2>4
    <3> QED
      BY <3>1, <3>2, <3>3
  <2>7. ASSUME NEW u \in waiting
        PROVE  /\ u \notin before'[u] /\ before'[u] \subseteq waiting
               /\ \A v \in before'[u] : before'[v] \subseteq before'[u]
    <3>1. CASE u \in ends
      <4>1. ASSUME NEW v \in before'[u]
            PROVE  before'[v] \subseteq before'[u]
        BY <4>1, <3>1, <2>4, <2>5
      <4> QED
        BY <4>1, <3>1, <2>5
    <3>2. CASE u \notin ends
      <4>1. u \notin before[u] /\ \A v \in before[u] : before[v] \subseteq before[u]
        BY <3>2, <2>4 DEF QueueIsOrdered
      <4>2. ASSUME NEW v \in before'[u]
            PROVE  before'[v] \subseteq before'[u]
        <5>1. v \in waiting /\ v \notin ends /\ v \in before[u]
          BY <4>2, <3>2, <2>4
        <5> QED
          BY <5>1, <4>1, <3>2, <2>4
      <4> QED
        BY <4>1, <4>2, <3>2, <2>4
    <3> QED
      BY <3>1, <3>2
  <2> QED
    BY <2>1, <2>3, <2>6, <2>7 DEF QueueIsOrdered
<1> QED
  BY <1>1, <1>2, TableStep

-----------------------------------------------------------------------------
(* Handlers other than t do not move when t does. *)
LEMMA OneMoves ==
    ASSUME Typed, NEW t \in Tasks, Update(t) \/ Work(t)
    PROVE  \A s \in Tasks \ {t} : job'[s] = job[s]
<1> USE DEF Begin, Goto, Aim, Done, Run, Typed, TypeOK
<1>1. CASE Update(t)
  BY <1>1
  DEF Update, JoinClick, ReserveClick, DeclineClick, GuestsClick, GuestsMessage, SeekClick,
      DriverClick, PassengerClick, SeatsMessage, ManualDriver, ChooseDriver, ManualPassenger,
      ManualAdd, EditLimit, DeleteClick
<1>2. CASE Work(t)
  BY <1>2
  DEF Work, InsertSnapshot, InsertWrite, InsertReserve, PromoteSnapshot, PromoteWrite,
      DemoteRiders, DemoteWrite, RemoveRiders, RemoveWrite, PickCheck, PickSelect, PickWrite,
      NotifyPromoted, GuestCheck, GuestWrite, SeekWrite, DriveWrite, RideWrite, EnsureMain,
      CancelMark, CancelClear
<1> QED
  BY <1>1, <1>2
=============================================================================
