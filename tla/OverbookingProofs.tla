-------------------------- MODULE OverbookingProofs --------------------------
(***************************************************************************)
(* However many handlers overlap, an event with a limit is overbooked by a *)
(* bounded number of seats.  The invariant counts with the seats taken     *)
(* those that handlers in flight have been granted: a write turns granted  *)
(* seats into taken ones, and a new grant is made only when the seats      *)
(* taken leave room, so that what it can exceed the limit by is what the   *)
(* other handlers hold.                                                    *)
(***************************************************************************)
EXTENDS ParticipationProofs

(* Carpool upserts ignore the limit; without them every seat is granted. *)
NoCarpool == Handlers \intersect {"seek", "driver", "passenger", "manual_carpool"} = {}
Limited == \A l \in Limits : l >= 1

GrantingJobs ==
    \A t \in Tasks : job[t].pc \notin {"seek_on", "seek_off", "drive_write", "drive_manual",
                                       "ensure_driver", "ride_write", "ride_manual",
                                       "ensure_rider"}

Sound == Typed /\ RosterShape /\ GrantingJobs

Others(t) == UNION {Granted(s) : s \in Tasks \ {t}}
Tokens == (Users \X (0..MaxGuests)) \union (Tasks \X {-1})

(* What a handler may hold: nothing, one seat, or the guests of one user. *)
LEMMA GrantedShape ==
    ASSUME Typed, NEW s \in Tasks
    PROVE  \/ Granted(s) = {}
           \/ \E u \in Users : Granted(s) = {<<u, 0>>}
           \/ Granted(s) = {<<s, -1>>}
           \/ \E u \in Users, n \in 0..MaxGuests : Granted(s) = {<<u, i>> : i \in 1..n}
<1>1. JobOK(job[s])
  BY DEF Typed
<1>2. CASE job[s].pc \in {"write_going", "write_seeker", "promote_write"}
  BY <1>1, <1>2 DEF Granted, JobOK
<1>3. CASE job[s].pc = "pick_select"
  BY <1>3 DEF Granted
<1>4. CASE job[s].pc = "pick_write"
  BY <1>1, <1>4 DEF Granted, JobOK
<1>5. CASE job[s].pc = "guest_check"
  <2>1. job[s].who \in Users /\ job[s].old \in 0..MaxGuests
    BY <1>1, <1>5 DEF JobOK, Jobs
  <2>2. Granted(s) = {<<job[s].who, i>> : i \in 1..job[s].old}
    BY <1>5 DEF Granted
  <2> QED
    BY <2>1, <2>2
<1>6. CASE job[s].pc = "guest_write"
  <2>1. job[s].who \in Users /\ job[s].num \in 0..MaxGuests
    BY <1>1, <1>6 DEF JobOK
  <2>2. Granted(s) = {<<job[s].who, i>> : i \in 1..job[s].num}
    BY <1>6 DEF Granted
  <2> QED
    BY <2>1, <2>2
<1>7. CASE job[s].pc \notin {"write_going", "write_seeker", "promote_write", "pick_select",
                             "pick_write", "guest_check", "guest_write"}
  BY <1>7 DEF Granted
<1> QED
  BY <1>2, <1>3, <1>4, <1>5, <1>6, <1>7

LEMMA TokensFinite ==
    /\ IsFiniteSet(Tokens)
    /\ Typed => SeatsPromised \subseteq Tokens /\ SeatsTaken \subseteq Tokens
                /\ \A t \in Tasks : Granted(t) \subseteq Tokens /\ Others(t) \subseteq Tokens
<1> USE ParticipationAssumption
<1>1. IsFiniteSet(Tokens)
  <2>1. IsFiniteSet(0..MaxGuests)
    BY FS_Interval
  <2>2. IsFiniteSet({-1})
    BY FS_Singleton
  <2>3. IsFiniteSet(Users \X (0..MaxGuests)) /\ IsFiniteSet(Tasks \X {-1})
    BY <2>1, <2>2, FS_Product
  <2> QED
    BY <2>3, FS_Union DEF Tokens
<1>2. ASSUME Typed, NEW t \in Tasks
      PROVE  Granted(t) \subseteq Tokens
  BY <1>2, GrantedShape DEF Tokens
<1> QED
  BY <1>1, <1>2 DEF SeatsPromised, SeatsTaken, Others, Tokens

(* The other handlers hold at most MostGranted seats each. *)
LEMMA OthersBound ==
    ASSUME Typed, NEW t \in Tasks
    PROVE  /\ IsFiniteSet(Others(t))
           /\ Cardinality(Others(t)) <= (Cardinality(Tasks) - 1) * MostGranted
<1> DEFINE owner(x) == CHOOSE s \in Tasks \ {t} : x \in Granted(s)
           slot(x) == IF x[2] >= 1 THEN x[2] ELSE 1
           places == (Tasks \ {t}) \X (1..MostGranted)
           f == [x \in Others(t) |-> <<owner(x), slot(x)>>]
<1>1. \A x \in Others(t) : owner(x) \in Tasks \ {t} /\ x \in Granted(owner(x))
  BY DEF Others
<1>2. ASSUME NEW s \in Tasks, NEW x \in Granted(s)
      PROVE  slot(x) \in 1..MostGranted
  BY <1>2, GrantedShape, ParticipationAssumption DEF MostGranted
<1>3. ASSUME NEW s \in Tasks, NEW x \in Granted(s), NEW y \in Granted(s), slot(x) = slot(y)
      PROVE  x = y
  <2>1. CASE \E u \in Users, n \in 0..MaxGuests : Granted(s) = {<<u, i>> : i \in 1..n}
    BY <2>1, <1>3
  <2> QED
    BY <2>1, <1>3, GrantedShape
<1> HIDE DEF owner, slot
<1>4. f \in Injection(Others(t), places)
  BY <1>1, <1>2, <1>3 DEF Injection, IsInjective
<1>5. /\ IsFiniteSet(places)
      /\ Cardinality(places) = (Cardinality(Tasks) - 1) * MostGranted
  <2>1. MostGranted \in Nat /\ IsFiniteSet(Tasks)
    BY ParticipationAssumption DEF MostGranted
  <2>2. IsFiniteSet(1..MostGranted) /\ Cardinality(1..MostGranted) = MostGranted
    BY <2>1, FS_Interval DEF MostGranted
  <2>3. IsFiniteSet(Tasks \ {t}) /\ Cardinality(Tasks \ {t}) = Cardinality(Tasks) - 1
    BY <2>1, FS_RemoveElement
  <2> QED
    BY <2>2, <2>3, FS_Product
<1> HIDE DEF f, places
<1> QED
  BY <1>4, <1>5, FS_Injection

(* The bound leaves room for one grant and all that the others hold. *)
LEMMA BoundType ==
    /\ SeatBound \in Nat /\ MaxLimit \in Nat /\ StaleGuests \in Nat
    /\ SeatBound = MaxLimit + StaleGuests + (Cardinality(Tasks) - 1) * MostGranted
<1>1. Cardinality(Tasks) \in Nat \ {0}
  BY ParticipationAssumption, FS_CardinalityType, FS_EmptySet
<1>2. (Cardinality(Tasks) - 1) * MostGranted \in Nat
  <2>1. MostGranted \in Nat
    BY ParticipationAssumption DEF MostGranted
  <2> QED
    BY <1>1, <2>1
<1>3. StaleGuests \in Nat
  BY ParticipationAssumption DEF StaleGuests
<1> HIDE DEF StaleGuests
<1> QED
  BY <1>2, <1>3, ParticipationAssumption DEF SeatBound

(* A step of handler t that adds no seat to those taken and those it holds. *)
LEMMA NoGrowth ==
    ASSUME Typed, Typed', PromisesBounded, NEW t \in Tasks,
           \A s \in Tasks \ {t} : job'[s] = job[s],
           SeatsTaken' \union Granted(t)' \subseteq SeatsTaken \union Granted(t)
    PROVE  PromisesBounded'
<1>1. \A s \in Tasks \ {t} : Granted(s)' = Granted(s)
  BY DEF Granted
<1>2. SeatsPromised' \subseteq SeatsPromised
  BY <1>1 DEF SeatsPromised
<1>3. IsFiniteSet(SeatsPromised)
  BY TokensFinite, FS_Subset
<1>4. /\ Cardinality(SeatsPromised') <= Cardinality(SeatsPromised)
      /\ Cardinality(SeatsPromised) \in Nat /\ Cardinality(SeatsPromised') \in Nat
  BY <1>2, <1>3, FS_Subset, FS_CardinalityType
<1> QED
  BY <1>4, BoundType DEF PromisesBounded

(* A step of handler t that is granted seats while the limit leaves room. *)
LEMMA Grant ==
    ASSUME Typed, Typed', NEW t \in Tasks, NEW new, IsFiniteSet(new),
           \A s \in Tasks \ {t} : job'[s] = job[s],
           SeatsTaken' = SeatsTaken, Granted(t)' \subseteq new,
           Cardinality(SeatsTaken) + Cardinality(new) <= MaxLimit + StaleGuests
    PROVE  PromisesBounded'
<1>1. Others(t)' = Others(t)
  BY DEF Others, Granted
<1>2. SeatsPromised' \subseteq (SeatsTaken \union new) \union Others(t)
  BY <1>1 DEF SeatsPromised, Others
<1>3. IsFiniteSet(SeatsTaken) /\ Cardinality(SeatsTaken) \in Nat /\ Cardinality(new) \in Nat
  BY TokensFinite, FS_Subset, FS_CardinalityType
<1>4. /\ IsFiniteSet(Others(t)) /\ Cardinality(Others(t)) \in Nat
      /\ Cardinality(Others(t)) <= (Cardinality(Tasks) - 1) * MostGranted
  BY OthersBound, FS_CardinalityType
<1> DEFINE own == SeatsTaken \union new
<1>5. /\ IsFiniteSet(own) /\ Cardinality(own) \in Nat
      /\ Cardinality(own) <= Cardinality(SeatsTaken) + Cardinality(new)
  <2>1. /\ IsFiniteSet(own)
        /\ Cardinality(own) = Cardinality(SeatsTaken) + Cardinality(new)
                                - Cardinality(SeatsTaken \intersect new)
    BY <1>3, FS_Union
  <2>2. Cardinality(SeatsTaken \intersect new) \in Nat
    BY <1>3, FS_Intersection, FS_CardinalityType
  <2> HIDE DEF own
  <2>3. Cardinality(own) \in Nat
    BY <2>1, FS_CardinalityType
  <2> QED
    BY <2>1, <2>2, <2>3, <1>3
<1> HIDE DEF own
<1> DEFINE all == own \union Others(t)
<1>6. /\ IsFiniteSet(all) /\ Cardinality(all) \in Nat
      /\ Cardinality(all) <= Cardinality(own) + Cardinality(Others(t))
  <2>1. /\ IsFiniteSet(all)
        /\ Cardinality(all) = Cardinality(own) + Cardinality(Others(t))
                                - Cardinality(own \intersect Others(t))
    BY <1>4, <1>5, FS_Union
  <2>2. Cardinality(own \intersect Others(t)) \in Nat
    BY <1>5, FS_Intersection, FS_CardinalityType
  <2> HIDE DEF all
  <2>3. Cardinality(all) \in Nat
    BY <2>1, FS_CardinalityType
  <2> QED
    BY <2>1, <2>2, <2>3, <1>4, <1>5
<1>7. SeatsPromised' \subseteq all
  BY <1>2 DEF own
<1> HIDE DEF all
<1>8. Cardinality(SeatsPromised') \in Nat /\ Cardinality(SeatsPromised') <= Cardinality(all)
  BY <1>6, <1>7, FS_Subset, FS_CardinalityType
<1>9. (Cardinality(Tasks) - 1) * MostGranted \in Int
  <2>1. Cardinality(Tasks) \in Nat /\ MostGranted \in Nat
    BY ParticipationAssumption, FS_CardinalityType DEF MostGranted
  <2> QED
    BY <2>1
<1> DEFINE room == (Cardinality(Tasks) - 1) * MostGranted
<1>10. /\ room \in Int /\ Cardinality(Others(t)) <= room
       /\ SeatBound = MaxLimit + StaleGuests + room
  BY <1>4, <1>9, BoundType
<1> HIDE DEF room
<1>11. Cardinality(SeatsPromised') <= SeatBound
  BY <1>3, <1>4, <1>5, <1>6, <1>8, <1>10, BoundType
<1> QED
  BY <1>11 DEF PromisesBounded, SeatBound, MostGranted, StaleGuests

(* The pick names its user: the seat held in the name of the task becomes his. *)
LEMMA PickNames ==
    ASSUME Typed, Typed', PromisesBounded, NEW t \in Tasks, NEW v \in Users,
           \A s \in Tasks \ {t} : job'[s] = job[s],
           SeatsTaken' = SeatsTaken, Granted(t) = {<<t, -1>>}, Granted(t)' = {<<v, 0>>}
    PROVE  PromisesBounded'
<1> DEFINE rest == SeatsTaken \union Others(t)
<1>1. Others(t)' = Others(t)
  BY DEF Others, Granted
<1>2. SeatsPromised' = rest \union {<<v, 0>>} /\ SeatsPromised = rest \union {<<t, -1>>}
  BY <1>1 DEF SeatsPromised, Others
<1>3. <<t, -1>> \notin rest
  <2>1. <<t, -1>> \notin SeatsTaken
    BY DEF SeatsTaken
  <2>2. ASSUME NEW s \in Tasks \ {t}, <<t, -1>> \in Granted(s)
        PROVE  FALSE
    BY <2>2, GrantedShape
  <2> QED
    BY <2>1, <2>2 DEF Others
<1>4. IsFiniteSet(rest)
  <2>1. rest \subseteq Tokens
    BY TokensFinite
  <2> QED
    BY <2>1, TokensFinite, FS_Subset
<1> HIDE DEF rest
<1>5. /\ Cardinality(rest) \in Nat
      /\ Cardinality(SeatsPromised) = Cardinality(rest) + 1
  BY <1>2, <1>3, <1>4, FS_AddElement, FS_CardinalityType
<1>6. \/ Cardinality(SeatsPromised') = Cardinality(rest)
      \/ Cardinality(SeatsPromised') = Cardinality(rest) + 1
  BY <1>2, <1>4, FS_AddElement
<1> QED
  BY <1>5, <1>6, BoundType DEF PromisesBounded

-----------------------------------------------------------------------------
(* Without the carpool handlers no statement of theirs is ever sent. *)
LEMMA GrantingNext ==
    ASSUME NoCarpool, Typed, GrantingJobs, [Next]_vars
    PROVE  GrantingJobs'
<1> DEFINE Plain(p) == p \notin {"seek_on", "seek_off", "drive_write", "drive_manual",
                                 "ensure_driver", "ride_write", "ride_manual", "ensure_rider"}
<1>1. ASSUME NEW t \in Tasks, Update(t) \/ Work(t), Plain(job'[t].pc)
      PROVE  GrantingJobs'
  BY <1>1, OneMoves DEF GrantingJobs
<1>2. ASSUME NEW t \in Tasks, Update(t)
      PROVE  Plain(job'[t].pc)
  BY <1>2
  DEF Update, JoinClick, ReserveClick, DeclineClick, GuestsClick, GuestsMessage, SeekClick,
      DriverClick, PassengerClick, SeatsMessage, ManualDriver, ChooseDriver, ManualPassenger,
      ManualAdd, EditLimit, DeleteClick, Begin, Run, Handler, Start, NoCarpool, GrantingJobs,
      Typed, TypeOK
<1>3. ASSUME NEW t \in Tasks, Work(t)
      PROVE  Plain(job'[t].pc)
  BY <1>3
  DEF Work, InsertSnapshot, InsertWrite, InsertReserve, PromoteSnapshot, PromoteWrite,
      DemoteRiders, DemoteWrite, RemoveRiders, RemoveWrite, PickCheck, PickSelect, PickWrite,
      NotifyPromoted, GuestCheck, GuestWrite, SeekWrite, DriveWrite, RideWrite, EnsureMain,
      CancelMark, CancelClear, At, Goto, Aim, Done, Run, Handler, Idle, GrantingJobs, Typed, TypeOK
<1>4. CASE Restart
  BY <1>4 DEF Restart, GrantingJobs, Idle, Handler
<1>5. CASE UNCHANGED vars
  BY <1>5 DEF vars, GrantingJobs
<1> QED
  BY <1>1, <1>2, <1>3, <1>4, <1>5 DEF Next

(* A statement that leaves the seats taken within a set of seats. *)
LEMMA SeatsAfter ==
    ASSUME NEW rows \in [Users -> Rows], NEW tail, Store(rows, tail), NEW seats,
           \A u \in Users : rows[u].status \in MainStatuses
               => \A i \in 0..MaxGuests : i <= rows[u].guests => <<u, i>> \in seats
    PROVE  SeatsTaken' \subseteq seats
BY DEF Store, SeatsTaken, Main

(* One row is written, by a handler that holds what the row adds. *)
LEMMA RowAfter ==
    ASSUME Typed, NEW u \in Users, NEW q \in Rows, NEW tail, Store([row EXCEPT ![u] = q], tail),
           NEW held,
           q.status \in MainStatuses
               => \A i \in 0..MaxGuests : i <= q.guests => <<u, i>> \in SeatsTaken \union held
    PROVE  SeatsTaken' \subseteq SeatsTaken \union held
<1> DEFINE rows == [row EXCEPT ![u] = q]
<1>1. rows \in [Users -> Rows] /\ rows[u] = q /\ \A v \in Users \ {u} : rows[v] = row[v]
  BY DEF Typed, TypeOK
<1>2. Store(rows, tail)
  OBVIOUS
<1> HIDE DEF rows
<1>3. \A v \in Users : rows[v].status \in MainStatuses
         => \A i \in 0..MaxGuests : i <= rows[v].guests => <<v, i>> \in SeatsTaken \union held
  BY <1>1 DEF SeatsTaken, Main
<1> QED
  BY <1>1, <1>2, <1>3, SeatsAfter

(* n guests of one user are n seats. *)
LEMMA GuestSeats ==
    ASSUME NEW u, NEW n \in Nat
    PROVE  /\ IsFiniteSet({<<u, i>> : i \in 1..n})
           /\ Cardinality({<<u, i>> : i \in 1..n}) = n
<1> DEFINE f == [i \in 1..n |-> <<u, i>>]
           S == {<<u, i>> : i \in 1..n}
<1>1. f \in Injection(1..n, S) /\ f \in Surjection(1..n, S)
  BY DEF Injection, IsInjective, Surjection
<1>2. IsFiniteSet(1..n) /\ Cardinality(1..n) = n
  BY FS_Interval
<1> HIDE DEF f, S
<1>3. IsFiniteSet(S) /\ Cardinality(S) = n
  BY <1>1, <1>2, FS_Surjection
<1> QED
  BY <1>3 DEF S

LEMMA PromisesNext ==
    ASSUME NoCarpool, Limited, Sound, Typed', PromisesBounded, [Next]_vars
    PROVE  PromisesBounded'
<1> USE DEF At, Run, Begin, Aim, Goto, Done, Handler, Idle
<1>a. /\ Typed /\ RosterShape /\ GrantingJobs
      /\ \A t \in Tasks : JobOK(job[t]) /\ job[t] \in Jobs
      /\ \A u \in Users : row[u] \in Rows
      /\ limit \in Int /\ limit >= 1 /\ limit <= MaxLimit
  BY ParticipationAssumption DEF Sound, Typed, TypeOK, Limited, JobOK
<1>b. job \in [Tasks -> Jobs]
  BY <1>a DEF Typed, TypeOK
<1>c. ASSUME NEW t \in Tasks, Update(t) \/ Work(t),
             SeatsTaken' \union Granted(t)' \subseteq SeatsTaken \union Granted(t)
      PROVE  PromisesBounded'
  BY <1>a, <1>c, OneMoves, NoGrowth
<1>d. ASSUME NEW t \in Tasks, job'[t].pc \notin {"write_going", "write_seeker", "promote_write",
               "pick_select", "pick_write", "guest_check", "guest_write"}
      PROVE  Granted(t)' = {}
  BY <1>d DEF Granted
<1>e. ASSUME NEW t \in Tasks, Work(t), SeatsTaken' = SeatsTaken, NEW x, Granted(t)' = {x},
             Occupied < limit
      PROVE  PromisesBounded'
  <2>1. IsFiniteSet({x}) /\ Cardinality({x}) = 1
    BY FS_Singleton
  <2>2. Cardinality(SeatsTaken) \in Nat
    BY <1>a, TokensFinite, FS_Subset, FS_CardinalityType
  <2>3. Cardinality(SeatsTaken) + Cardinality({x}) <= MaxLimit + StaleGuests
    BY <2>1, <2>2, <1>a, <1>e, BoundType DEF Occupied
  <2> QED
    BY <2>1, <2>3, <1>a, <1>e, OneMoves, Grant
<1>f. UNCHANGED table => SeatsTaken' = SeatsTaken
  BY DEF table, SeatsTaken, Main
<1>g. \A u \in Users, i \in 0..MaxGuests :
        u \in Main /\ i <= row[u].guests => <<u, i>> \in SeatsTaken
  BY DEF SeatsTaken
<1>1. ASSUME NEW t \in Tasks, NEW u \in Users, NEW g \in 0..MaxGuests, GuestsMessage(t, u, g)
      PROVE  PromisesBounded'
  <2>1. Update(t)
    BY <1>1 DEF Update
  <2>2. SeatsTaken' = SeatsTaken
    BY <1>1, <1>f DEF GuestsMessage, event, table
  <2>3. CASE u \in Main /\ Run(t, Handler("guest_check", u, NoUser, g, row[u].guests))
    <3>1. Granted(t)' = {<<u, i>> : i \in 1..row[u].guests}
      BY <2>3, <1>b DEF Granted, Handler
    <3>2. row[u].guests \in 0..MaxGuests
      BY <1>a DEF Rows
    <3>3. Granted(t)' \subseteq SeatsTaken
      BY <3>1, <3>2, <2>3, <1>g, ParticipationAssumption
    <3> QED
      BY <3>3, <2>1, <2>2, <1>c
  <2>4. CASE UNCHANGED job
    <3>1. Granted(t)' = Granted(t)
      BY <2>4 DEF Granted
    <3> QED
      BY <3>1, <2>1, <2>2, <1>c
  <2> QED
    BY <2>3, <2>4, <1>1 DEF GuestsMessage
<1>2. ASSUME NEW t \in Tasks, Update(t),
             ~ \E u \in Users, g \in 0..MaxGuests : GuestsMessage(t, u, g)
      PROVE  PromisesBounded'
  <2>1. SeatsTaken' = SeatsTaken
    BY <1>2, <1>f
    DEF Update, JoinClick, ReserveClick, DeclineClick, GuestsClick, SeekClick, DriverClick,
        PassengerClick, SeatsMessage, ManualDriver, ChooseDriver, ManualPassenger, ManualAdd,
        EditLimit, DeleteClick, table
  <2>2. job[t].pc = "idle" /\ job'[t].pc \notin {"write_going", "write_seeker", "promote_write",
               "pick_select", "pick_write", "guest_check", "guest_write"}
    BY <1>2, <1>b
    DEF Update, JoinClick, ReserveClick, DeclineClick, GuestsClick, SeekClick, DriverClick,
        PassengerClick, SeatsMessage, ManualDriver, ChooseDriver, ManualPassenger, ManualAdd,
        EditLimit, DeleteClick, Start, Begin, Handler
  <2> QED
    BY <2>1, <2>2, <1>2, <1>c, <1>d
<1>3. ASSUME NEW t \in Tasks, InsertSnapshot(t)
      PROVE  PromisesBounded'
  <2>1. Work(t) /\ SeatsTaken' = SeatsTaken
    BY <1>3, <1>f DEF Work, InsertSnapshot
  <2>2. CASE HasRoom /\ (Goto(t, "write_going") \/ Goto(t, "write_seeker"))
    <3>1. Granted(t)' = {<<job[t].who, 0>>}
      BY <2>2, <1>b DEF Granted, Handler
    <3>2. Occupied < limit
      BY <2>2, <1>a DEF HasRoom
    <3> QED
      BY <3>1, <3>2, <2>1, <1>e
  <2>3. CASE Done(t)
    BY <2>1, <2>3, <1>b, <1>c, <1>d DEF Idle, Handler
  <2> QED
    BY <2>2, <2>3, <1>3 DEF InsertSnapshot
<1>4. ASSUME NEW t \in Tasks, PromoteSnapshot(t)
      PROVE  PromisesBounded'
  <2>1. Work(t) /\ SeatsTaken' = SeatsTaken
    BY <1>4, <1>f DEF Work, PromoteSnapshot
  <2>2. CASE HasRoom /\ Goto(t, "promote_write")
    <3>1. Granted(t)' = {<<job[t].who, 0>>}
      BY <2>2, <1>b DEF Granted, Handler
    <3>2. Occupied < limit
      BY <2>2, <1>a DEF HasRoom
    <3> QED
      BY <3>1, <3>2, <2>1, <1>e
  <2>3. CASE Done(t)
    BY <2>1, <2>3, <1>b, <1>c, <1>d DEF Idle, Handler
  <2> QED
    BY <2>2, <2>3, <1>4 DEF PromoteSnapshot
<1>5. ASSUME NEW t \in Tasks, PickCheck(t)
      PROVE  PromisesBounded'
  <2>1. Work(t) /\ SeatsTaken' = SeatsTaken
    BY <1>5, <1>f DEF Work, PickCheck
  <2>2. CASE ~PickFull /\ Goto(t, "pick_select")
    <3>1. Granted(t)' = {<<t, -1>>}
      BY <2>2, <1>b DEF Granted, Handler
    <3>2. Occupied \in Nat
      BY <1>a, TokensFinite, FS_Subset, FS_CardinalityType DEF Occupied
    <3>3. Occupied < limit
      BY <3>2, <2>2, <1>a DEF PickFull
    <3> QED
      BY <3>1, <3>3, <2>1, <1>e
  <2>3. CASE Done(t)
    BY <2>1, <2>3, <1>b, <1>c, <1>d DEF Idle, Handler
  <2> QED
    BY <2>2, <2>3, <1>5 DEF PickCheck
<1>6. ASSUME NEW t \in Tasks, PickSelect(t)
      PROVE  PromisesBounded'
  <2>1. Work(t) /\ SeatsTaken' = SeatsTaken
    BY <1>6, <1>f DEF Work, PickSelect
  <2>2. ASSUME NEW v \in Users, Aim(t, "pick_write", v)
        PROVE  PromisesBounded'
    <3>1. Granted(t)' = {<<v, 0>>} /\ Granted(t) = {<<t, -1>>}
      BY <2>2, <1>6, <1>b DEF Granted, Aim, Handler, PickSelect
    <3> QED
      BY <3>1, <2>1, <1>a, OneMoves, PickNames
  <2>3. CASE Done(t)
    BY <2>1, <2>3, <1>b, <1>c, <1>d DEF Idle, Handler
  <2> QED
    BY <2>2, <2>3, <1>6 DEF PickSelect, FirstOf, Waitlist
<1>7. ASSUME NEW t \in Tasks, GuestCheck(t)
      PROVE  PromisesBounded'
  <2>1. Work(t) /\ SeatsTaken' = SeatsTaken
    BY <1>7, <1>f DEF Work, GuestCheck
  <2> DEFINE u == job[t].who
             g == job[t].num
             old == job[t].old
             new == {<<u, i>> : i \in 1..g}
  <2>2. u \in Users /\ g \in 0..MaxGuests /\ old \in 0..MaxGuests
    BY <1>7, <1>a DEF GuestCheck, JobOK, Jobs
  <2>3. Granted(t) = {<<u, i>> : i \in 1..old}
    BY <1>7 DEF GuestCheck, Granted
  <2>4. CASE Done(t)
    BY <2>1, <2>4, <1>b, <1>c, <1>d DEF Idle, Handler
  <2>5. CASE GuestsFit(g, old) /\ Goto(t, "guest_write")
    <3>1. Granted(t)' = new
      BY <2>5, <1>b DEF Granted, Handler
    <3>2. CASE g = old \/ g = 0
      <4>1. new \subseteq Granted(t)
        BY <3>2, <2>2, <2>3
      <4> QED
        BY <4>1, <3>1, <2>1, <1>c
    <3>3. CASE g # old /\ g # 0
      <4>1. Occupied - old + g <= limit
        BY <3>3, <2>5, <1>a DEF GuestsFit
      <4>2. IsFiniteSet(new) /\ Cardinality(new) = g
        <5>1. g \in Nat
          BY <2>2, ParticipationAssumption
        <5> HIDE DEF u, g
        <5> QED
          BY <5>1, GuestSeats
      <4>3. Cardinality(SeatsTaken) \in Nat
        BY <1>a, TokensFinite, FS_Subset, FS_CardinalityType
      <4>4. old <= StaleGuests
        BY <3>3, <2>2, ParticipationAssumption DEF StaleGuests
      <4>5. Cardinality(SeatsTaken) + Cardinality(new) <= MaxLimit + StaleGuests
        BY <4>1, <4>2, <4>3, <4>4, <2>2, <1>a, BoundType DEF Occupied
      <4> HIDE DEF new
      <4> QED
        BY <3>1, <4>2, <4>5, <2>1, <1>a, OneMoves, Grant
    <3> QED
      BY <3>2, <3>3
  <2> QED
    BY <2>4, <2>5, <1>7 DEF GuestCheck
<1>8. ASSUME NEW t \in Tasks, GuestWrite(t)
      PROVE  PromisesBounded'
  <2> DEFINE u == job[t].who
             q == AsHost(row[u], job[t].num)
  <2>1. u \in Users /\ job[t].num \in 0..MaxGuests
    BY <1>8, <1>a DEF GuestWrite, JobOK
  <2>2. Granted(t) = {<<u, i>> : i \in 1..job[t].num}
    BY <1>8 DEF GuestWrite, Granted
  <2>3. Work(t) /\ Granted(t)' = {}
    BY <1>8, <1>b, <1>d DEF Work, GuestWrite, Idle, Handler
  <2>4. CASE Store([row EXCEPT ![u] = q], {})
    <3>1. q \in Rows
      BY <2>1, <1>a, ParticipationAssumption DEF AsHost, Rows
    <3>2. q.status \in MainStatuses => \A i \in 0..MaxGuests : i <= q.guests
              => <<u, i>> \in SeatsTaken \union Granted(t)
      <4>1. ASSUME q.status \in MainStatuses, NEW i \in 0..MaxGuests, i <= q.guests
            PROVE  <<u, i>> \in SeatsTaken \union Granted(t)
        <5>1. u \in Main /\ i <= job[t].num /\ row[u].guests \in 0..MaxGuests
          BY <4>1, <2>1, <1>a DEF AsHost, Main, Rows
        <5>2. CASE i = 0
          BY <5>1, <5>2, <2>1, <1>g
        <5>3. CASE i # 0
          BY <5>1, <5>3, <2>1, <2>2
        <5> QED
          BY <5>2, <5>3
      <4> QED
        BY <4>1
    <3> HIDE DEF q
    <3>3. SeatsTaken' \subseteq SeatsTaken \union Granted(t)
      BY <3>1, <3>2, <2>1, <2>4, <1>a, RowAfter
    <3> QED
      BY <3>3, <2>3, <1>c
  <2>5. CASE UNCHANGED table
    BY <2>3, <2>5, <1>c, <1>f
  <2> QED
    BY <2>4, <2>5, <1>8 DEF GuestWrite
<1>9. ASSUME NEW t \in Tasks, InsertWrite(t) \/ PromoteWrite(t)
      PROVE  PromisesBounded'
  <2>1. job[t].who \in Users /\ Granted(t) = {<<job[t].who, 0>>}
    BY <1>9, <1>a DEF InsertWrite, PromoteWrite, JobOK, Granted
  <2>2. Work(t) /\ Granted(t)' = {}
    BY <1>9, <1>b, <1>d DEF Work, InsertWrite, PromoteWrite, Idle, Handler
  <2>3. ASSUME NEW s \in MainStatuses, Store([row EXCEPT ![job[t].who] = Fresh(s)], {})
        PROVE  PromisesBounded'
    <3>1. Fresh(s) \in Rows /\ Fresh(s).guests = 0
      BY FreshType DEF Statuses, Fresh
    <3>2. SeatsTaken' \subseteq SeatsTaken \union Granted(t)
      BY <3>1, <2>1, <2>3, <1>a, RowAfter
    <3> QED
      BY <3>2, <2>2, <1>c
  <2>4. CASE UNCHANGED table
    BY <2>2, <2>4, <1>c, <1>f
  <2>5. "going" \in MainStatuses /\ "ride_seeker" \in MainStatuses
    BY DEF MainStatuses
  <2> QED
    BY <2>3, <2>4, <2>5, <1>9 DEF InsertWrite, PromoteWrite
<1>10. ASSUME NEW t \in Tasks, PickWrite(t)
       PROVE  PromisesBounded'
  <2> DEFINE v == job[t].tgt
             q == AsPromoted(row[v])
  <2>1. v \in Users /\ Granted(t) = {<<v, 0>>}
    BY <1>10, <1>a DEF PickWrite, JobOK, Granted
  <2>2. Work(t) /\ Granted(t)' = {}
    BY <1>10, <1>b, <1>d DEF Work, PickWrite, Handler
  <2>3. CASE Store([row EXCEPT ![v] = q], {})
    <3>1. q \in Rows /\ q.guests = 0
      BY <2>1, <1>a, ParticipationAssumption DEF AsPromoted, Rows, Statuses, MainStatuses
    <3> HIDE DEF q
    <3>2. SeatsTaken' \subseteq SeatsTaken \union Granted(t)
      BY <3>1, <2>1, <2>3, <1>a, RowAfter
    <3> QED
      BY <3>2, <2>2, <1>c
  <2>4. CASE UNCHANGED table
    BY <2>2, <2>4, <1>c, <1>f
  <2> QED
    BY <2>3, <2>4, <1>10 DEF PickWrite
<1>11. ASSUME NEW t \in Tasks, InsertReserve(t) \/ DemoteWrite(t) \/ RemoveWrite(t)
       PROVE  PromisesBounded'
  <2>1. job[t].who \in Users
    BY <1>11, <1>a DEF InsertReserve, DemoteWrite, RemoveWrite, JobOK
  <2>2. Work(t) /\ Granted(t)' = {}
    BY <1>11, <1>b, <1>d
    DEF Work, InsertReserve, DemoteWrite, RemoveWrite, Idle, Handler, Aim
  <2>3. ASSUME NEW s \in {"waitlist", "none"}, NEW tail,
               Store([row EXCEPT ![job[t].who] = Fresh(s)], tail)
        PROVE  PromisesBounded'
    <3>1. Fresh(s) \in Rows /\ Fresh(s).status \notin MainStatuses
      BY FreshType DEF Statuses, Fresh, MainStatuses
    <3>2. SeatsTaken' \subseteq SeatsTaken \union {}
      BY <3>1, <2>1, <2>3, <1>a, RowAfter
    <3> QED
      BY <3>2, <2>2, <1>c
  <2>4. CASE UNCHANGED table
    BY <2>2, <2>4, <1>c, <1>f
  <2> QED
    BY <2>3, <2>4, <1>11 DEF InsertReserve, DemoteWrite, RemoveWrite, NoRow
<1>12. ASSUME NEW t \in Tasks, DemoteRiders(t)
       PROVE  PromisesBounded'
  <2> DEFINE d == job[t].who
             rows == [u \in Users |-> IF u \in Riders(d) THEN AsReleased(row[u]) ELSE row[u]]
  <2>1. d \in Users
    BY <1>12, <1>a DEF DemoteRiders, JobOK
  <2>2. Work(t) /\ Granted(t)' = {}
    BY <1>12, <1>b, <1>d DEF Work, DemoteRiders, Handler
  <2>3. rows \in [Users -> Rows] /\ Store(rows, {})
    <3>1. \A u \in Users : AsReleased(row[u]) \in Rows
      BY <1>a, ParticipationAssumption DEF AsReleased, Rows, Statuses, MainStatuses
    <3> QED
      BY <3>1, <1>12, <1>a DEF DemoteRiders
  <2>4. \A u \in Riders(d) : u \in Main
    BY <2>1, <1>a, ParticipationAssumption
    DEF Riders, Main, RosterShape, OneRole, NoRow, Fresh, Rows, Statuses
  <2>5. ASSUME NEW u \in Users, rows[u].status \in MainStatuses,
               NEW i \in 0..MaxGuests, i <= rows[u].guests
        PROVE  <<u, i>> \in SeatsTaken
    <3>1. rows[u].guests = row[u].guests
      BY DEF AsReleased
    <3>2. u \in Main
      BY <2>4, <2>5 DEF Main
    <3> QED
      BY <3>1, <3>2, <2>5, <1>g
  <2> HIDE DEF rows
  <2>6. SeatsTaken' \subseteq SeatsTaken
    BY <2>3, <2>5, SeatsAfter
  <2> QED
    BY <2>2, <2>6, <1>c
<1>13. ASSUME NEW t \in Tasks, RemoveRiders(t)
       PROVE  PromisesBounded'
  <2> DEFINE rows == [u \in Users |-> IF u \in Riders(job[t].who) THEN NoRow ELSE row[u]]
  <2>1. Work(t) /\ Granted(t)' = {}
    BY <1>13, <1>b, <1>d DEF Work, RemoveRiders, Handler
  <2>2. NoRow \in Rows /\ NoRow.status \notin MainStatuses
    BY FreshType DEF NoRow, Fresh, Statuses, MainStatuses
  <2>3. rows \in [Users -> Rows] /\ Store(rows, {})
    BY <2>2, <1>13, <1>a DEF RemoveRiders
  <2>4. \A u \in Users : rows[u].status \in MainStatuses
           => \A i \in 0..MaxGuests : i <= rows[u].guests => <<u, i>> \in SeatsTaken
    BY <2>2, <1>g DEF Main
  <2> HIDE DEF rows
  <2>5. SeatsTaken' \subseteq SeatsTaken
    BY <2>3, <2>4, SeatsAfter
  <2> QED
    BY <2>1, <2>5, <1>c
<1>14. ASSUME NEW t \in Tasks, CancelClear(t)
       PROVE  PromisesBounded'
  <2>1. Work(t) /\ Granted(t)' = {}
    BY <1>14, <1>b, <1>d DEF Work, CancelClear, Idle, Handler
  <2>2. NoRow \in Rows /\ NoRow.status \notin MainStatuses
    BY FreshType DEF NoRow, Fresh, Statuses, MainStatuses
  <2>3. SeatsTaken' \subseteq SeatsTaken
    <3>1. [u \in Users |-> NoRow] \in [Users -> Rows]
      BY <2>2
    <3> QED
      BY <3>1, <2>2, <1>14, SeatsAfter DEF CancelClear
  <2> QED
    BY <2>1, <2>3, <1>c
<1>15. ASSUME NEW t \in Tasks, NotifyPromoted(t) \/ CancelMark(t)
       PROVE  PromisesBounded'
  <2>1. Work(t) /\ Granted(t)' = {} /\ SeatsTaken' = SeatsTaken
    BY <1>15, <1>b, <1>d, <1>f DEF Work, NotifyPromoted, CancelMark, Idle, Handler
  <2> QED
    BY <2>1, <1>c
<1>16. ASSUME NEW t \in Tasks, SeekWrite(t) \/ DriveWrite(t) \/ RideWrite(t) \/ EnsureMain(t)
       PROVE  FALSE
  BY <1>16, <1>a DEF GrantingJobs, SeekWrite, DriveWrite, RideWrite, EnsureMain
<1>17. CASE Restart \/ UNCHANGED vars
  <2>1. SeatsTaken' = SeatsTaken
    BY <1>17 DEF Restart, vars, table, SeatsTaken, Main
  <2>2. \A t \in Tasks : Granted(t)' \subseteq Granted(t)
    BY <1>17 DEF Restart, vars, Granted, Idle, Handler
  <2>3. SeatsPromised' \subseteq SeatsPromised
    BY <2>1, <2>2 DEF SeatsPromised
  <2>4. IsFiniteSet(SeatsPromised)
    BY <1>a, TokensFinite, FS_Subset
  <2>5. /\ Cardinality(SeatsPromised') <= Cardinality(SeatsPromised)
        /\ Cardinality(SeatsPromised) \in Nat /\ Cardinality(SeatsPromised') \in Nat
    BY <2>3, <2>4, FS_Subset, FS_CardinalityType
  <2> QED
    BY <2>5, BoundType DEF PromisesBounded
<1> QED
  BY <1>1, <1>2, <1>3, <1>4, <1>5, <1>6, <1>7, <1>8, <1>9, <1>10, <1>11, <1>12, <1>13, <1>14,
     <1>15, <1>16, <1>17
  DEF Next, Work

LEMMA PromisesImply == Typed /\ PromisesBounded => OverbookingBounded
<1> SUFFICES ASSUME Typed, PromisesBounded
             PROVE  OverbookingBounded
  OBVIOUS
<1>1. SeatsTaken \subseteq SeatsPromised /\ IsFiniteSet(SeatsPromised)
  BY TokensFinite, FS_Subset DEF SeatsPromised
<1>2. /\ Cardinality(SeatsTaken) <= Cardinality(SeatsPromised)
      /\ Cardinality(SeatsTaken) \in Nat /\ Cardinality(SeatsPromised) \in Nat
  BY <1>1, FS_Subset, FS_CardinalityType
<1> QED
  BY <1>2, BoundType DEF PromisesBounded, OverbookingBounded, Occupied

LEMMA PromisesInit == Init => PromisesBounded
<1> SUFFICES ASSUME Init
             PROVE  PromisesBounded
  OBVIOUS
<1>1. SeatsPromised = {}
  BY DEF Init, SeatsPromised, SeatsTaken, Main, MainStatuses, NoRow, Fresh, Granted, Idle, Handler
<1> QED
  BY <1>1, FS_EmptySet, BoundType DEF PromisesBounded

(* An event with a limit, and no carpool, is never overbooked by more than   *)
(* the other handlers in flight were granted.                                *)
THEOREM OverbookingIsBounded ==
    ASSUME NoCarpool, Limited
    PROVE  Spec => []OverbookingBounded
<1> DEFINE Inv == Sound /\ PromisesBounded
<1>1. Init => Inv
  <2>1. Init => RosterShape
    BY DEF Init, RosterShape, OneRole, NoRow, Fresh
  <2>2. Init => GrantingJobs
    BY DEF Init, GrantingJobs, Idle, Handler
  <2> QED
    BY <2>1, <2>2, InitTyped, PromisesInit DEF Sound
<1>2. Inv /\ [Next]_vars => Inv'
  BY NextTyped, RosterShapeNext, GrantingNext, PromisesNext DEF Sound
<1>3. Inv => OverbookingBounded
  BY PromisesImply DEF Sound
<1> QED
  BY <1>1, <1>2, <1>3, PTL DEF Spec

-----------------------------------------------------------------------------
(***************************************************************************)
(* Cars.  A seat is granted when a driver's button is pressed and taken    *)
(* when the passenger's row is written.  As for the main list, the         *)
(* invariant counts both: a write turns a grant into a passenger, and a    *)
(* grant is made only while the passengers written leave a seat, so only   *)
(* what the other handlers were granted can exceed it.                     *)
(***************************************************************************)
RideLabels == {"ride_write", "ride_manual"}

Boarding(d) == {t \in Tasks : job[t].pc \in RideLabels /\ job[t].tgt = d}

SeatsClaimed(d) == Cardinality(Passengers(d)) + Cardinality(Boarding(d))

(* The seats a car has been offered with are those of its driver's row at    *)
(* least.                                                                    *)
ClaimsBounded == \A d \in Users : row[d].seats <= offered[d] /\ SeatsClaimed(d) <= CarBound(d)

(* A press that is granted a seat. *)
Granting(t) == \E u, d \in Users : ChooseDriver(t, u, d) \/ ManualPassenger(t, u, d)

LEMMA CarFinite ==
    ASSUME NEW d \in Users
    PROVE  /\ IsFiniteSet(Passengers(d)) /\ Cardinality(Passengers(d)) \in Nat
           /\ IsFiniteSet(Boarding(d)) /\ Cardinality(Boarding(d)) \in Nat
           /\ Cardinality(Boarding(d)) <= Cardinality(Tasks) /\ Cardinality(Tasks) \in Nat
<1>1. Passengers(d) \subseteq Users /\ Boarding(d) \subseteq Tasks
  BY DEF Passengers, Riders, Boarding
<1> QED
  BY <1>1, ParticipationAssumption, FS_Subset, FS_CardinalityType

(* The numbers in the bound. *)
LEMMA PlacesType ==
    ASSUME Typed, NEW d \in Users
    PROVE  /\ offered[d] \in 0..MaxSeats /\ row[d].seats \in 0..MaxSeats
           /\ CarPlaces(d) \in Nat /\ CarPlaces(d) >= offered[d] - 1
           /\ CarBound(d) = CarPlaces(d) + Cardinality(Tasks) - 1 /\ CarBound(d) \in Nat
<1>1. offered[d] \in 0..MaxSeats /\ row[d].seats \in 0..MaxSeats
  BY DEF Typed, TypeOK, Rows
<1>2. CarPlaces(d) \in Nat /\ CarPlaces(d) >= offered[d] - 1
  BY <1>1, ParticipationAssumption DEF CarPlaces
<1>3. Cardinality(Tasks) \in Nat \ {0}
  BY ParticipationAssumption, FS_CardinalityType, FS_EmptySet
<1> QED
  BY <1>1, <1>2, <1>3 DEF CarBound

(* What a statement makes of the seats offered: they grow, or nobody rides  *)
(* in the car any more.                                                     *)
LEMMA StoreOffers ==
    ASSUME Typed, NEW rows \in [Users -> Rows], NEW tail, Store(rows, tail), NEW d \in Users
    PROVE  /\ row'[d].seats <= offered'[d]
           /\ offered'[d] >= offered[d] \/ Passengers(d)' = {}
<1>1. /\ row' = rows
      /\ offered'[d] = LET empty == \A u \in Users : rows[u].status = "passenger" => rows[u].driver # d
                       IN  IF empty \/ rows[d].seats > offered[d] THEN rows[d].seats ELSE offered[d]
  BY DEF Store
<1>2. rows[d].seats \in 0..MaxSeats /\ offered[d] \in 0..MaxSeats
  BY DEF Typed, TypeOK, Rows
<1>3. CASE \A u \in Users : rows[u].status = "passenger" => rows[u].driver # d
  <2>1. Passengers(d)' = {}
    BY <1>1, <1>3 DEF Passengers, Riders
  <2> QED
    BY <1>1, <1>2, <1>3, <2>1
<1>4. CASE ~ \A u \in Users : rows[u].status = "passenger" => rows[u].driver # d
  BY <1>1, <1>2, <1>4, ParticipationAssumption
<1> QED
  BY <1>3, <1>4

(* The seats offered change with the table only. *)
LEMMA OffersNext ==
    ASSUME Typed, ClaimsBounded, [Next]_vars, NEW d \in Users
    PROVE  /\ row'[d].seats <= offered'[d]
           /\ offered'[d] >= offered[d] \/ Passengers(d)' = {}
<1>1. CASE UNCHANGED table
  BY <1>1, PlacesType DEF table, ClaimsBounded
<1>2. ASSUME NEW rows \in [Users -> Rows], NEW ends \in SUBSET Users, Statement(rows, ends)
      PROVE  /\ row'[d].seats <= offered'[d]
             /\ offered'[d] >= offered[d] \/ Passengers(d)' = {}
  BY <1>2, StoreOffers DEF Statement
<1> QED
  BY <1>1, <1>2, TableStep

(* A free seat: the driver's own is counted out. *)
LEMMA FreeSeatMeans ==
    ASSUME Typed, NEW d \in Users, FreeSeats(d) > 0
    PROVE  /\ row[d].status = "driver" /\ row[d].seats \in 0..MaxSeats
           /\ Cardinality(Passengers(d)) <= row[d].seats - 2
<1>1. row[d].seats \in 0..MaxSeats /\ Cardinality(Passengers(d)) \in Nat
  BY CarFinite DEF Typed, TypeOK, Rows
<1>2. FreeSeats(d) = IF row[d].status = "driver" /\ row[d].seats - Cardinality(Passengers(d)) - 1 > 0
                     THEN row[d].seats - Cardinality(Passengers(d)) - 1 ELSE 0
  BY DEF FreeSeats, Passengers
<1> QED
  BY <1>1, <1>2, ParticipationAssumption

(* Whatever statement is written, only RideWrite makes a passenger. *)
LEMMA NobodyBoards ==
    ASSUME Typed, [Next]_vars, ~ \E t \in Tasks : RideWrite(t), NEW d \in Users
    PROVE  Passengers(d)' \subseteq Passengers(d)
<1> DEFINE Kept(rows) == \A u \in Users : rows[u].status = "passenger" =>
                           row[u].status = "passenger" /\ rows[u].driver = row[u].driver
<1>a. /\ \A t \in Tasks : JobOK(job[t])
      /\ row \in [Users -> Rows]
  BY DEF Typed, TypeOK
<1>b. ASSUME NEW rows, NEW tail, Store(rows, tail), Kept(rows)
      PROVE  Passengers(d)' \subseteq Passengers(d)
  BY <1>b DEF Store, Passengers, Riders
<1>c. UNCHANGED table => Passengers(d)' \subseteq Passengers(d)
  BY DEF table, Passengers, Riders
<1>d. ASSUME NEW u \in Users, NEW r, NEW tail, Store([row EXCEPT ![u] = r], tail),
             r.status = "passenger" => row[u].status = "passenger" /\ r.driver = row[u].driver
      PROVE  Passengers(d)' \subseteq Passengers(d)
  <2>1. Kept([row EXCEPT ![u] = r])
    BY <1>a, <1>d
  <2> QED
    BY <2>1, <1>b, <1>d
<1> HIDE DEF Kept
<1>1. ASSUME NEW t \in Tasks, Update(t)
      PROVE  Passengers(d)' \subseteq Passengers(d)
  BY <1>1, <1>c
  DEF Update, JoinClick, ReserveClick, DeclineClick, GuestsClick, GuestsMessage, SeekClick,
      DriverClick, PassengerClick, SeatsMessage, ManualDriver, ChooseDriver, ManualPassenger,
      ManualAdd, EditLimit, DeleteClick, table
<1>2. ASSUME NEW t \in Tasks, InsertWrite(t) \/ InsertReserve(t) \/ PromoteWrite(t) \/ DemoteWrite(t)
                              \/ RemoveWrite(t)
      PROVE  Passengers(d)' \subseteq Passengers(d)
  <2>1. job[t].who \in Users
    BY <1>2, <1>a DEF InsertWrite, InsertReserve, PromoteWrite, DemoteWrite, RemoveWrite, JobOK, At
  <2>2. \A s \in {"going", "ride_seeker", "waitlist", "none"} : Fresh(s).status # "passenger"
    BY DEF Fresh
  <2>3. \/ UNCHANGED table
        \/ \E s \in {"going", "ride_seeker", "waitlist", "none"}, tail \in {{}, {job[t].who}} :
             Store([row EXCEPT ![job[t].who] = Fresh(s)], tail)
    BY <1>2 DEF InsertWrite, InsertReserve, PromoteWrite, DemoteWrite, RemoveWrite, NoRow
  <2> QED
    BY <2>1, <2>2, <2>3, <1>c, <1>d
<1>3. ASSUME NEW t \in Tasks, PickWrite(t)
      PROVE  Passengers(d)' \subseteq Passengers(d)
  BY <1>3, <1>a, <1>c, <1>d DEF PickWrite, JobOK, At, AsPromoted
<1>4. ASSUME NEW t \in Tasks, GuestWrite(t) \/ SeekWrite(t) \/ DriveWrite(t)
      PROVE  Passengers(d)' \subseteq Passengers(d)
  <2>1. job[t].who \in Users
    BY <1>4, <1>a DEF GuestWrite, SeekWrite, DriveWrite, JobOK, At
  <2>2. \/ UNCHANGED table
        \/ \E r \in {AsHost(row[job[t].who], job[t].num), AsDriver(row[job[t].who], job[t].num),
                     AsSeeker(row[job[t].who], "going"), AsSeeker(row[job[t].who], "ride_seeker")} :
             Store([row EXCEPT ![job[t].who] = r], {})
    BY <1>4 DEF GuestWrite, SeekWrite, DriveWrite
  <2> QED
    BY <2>1, <2>2, <1>c, <1>d DEF AsHost, AsDriver, AsSeeker
<1>5. ASSUME NEW t \in Tasks, DemoteRiders(t) \/ RemoveRiders(t) \/ CancelClear(t)
      PROVE  Passengers(d)' \subseteq Passengers(d)
  <2> DEFINE released == [u \in Users |-> IF u \in Riders(job[t].who) THEN AsReleased(row[u]) ELSE row[u]]
             removed == [u \in Users |-> IF u \in Riders(job[t].who) THEN NoRow ELSE row[u]]
             cleared == [u \in Users |-> NoRow]
  <2>1. Kept(released) /\ Kept(removed) /\ Kept(cleared)
    BY DEF Kept, AsReleased, NoRow, Fresh
  <2>2. Store(released, {}) \/ Store(removed, {}) \/ Store(cleared, {})
    BY <1>5 DEF DemoteRiders, RemoveRiders, CancelClear
  <2> HIDE DEF released, removed, cleared
  <2> QED
    BY <2>1, <2>2, <1>b
<1>6. ASSUME NEW t \in Tasks,
             InsertSnapshot(t) \/ PromoteSnapshot(t) \/ PickCheck(t) \/ PickSelect(t)
             \/ NotifyPromoted(t) \/ GuestCheck(t) \/ EnsureMain(t) \/ CancelMark(t)
      PROVE  Passengers(d)' \subseteq Passengers(d)
  BY <1>6, <1>c
  DEF InsertSnapshot, PromoteSnapshot, PickCheck, PickSelect, NotifyPromoted, GuestCheck,
      EnsureMain, CancelMark
<1>7. CASE Restart \/ UNCHANGED vars
  BY <1>7, <1>c DEF Restart, vars, table
<1> QED
  BY <1>1, <1>2, <1>3, <1>4, <1>5, <1>6, <1>7 DEF Next, Work

(* Only a granting press leads to the statement that boards. *)
LEMMA NobodyIsGranted ==
    ASSUME Typed, NEW t \in Tasks, Update(t) \/ Work(t), ~Granting(t)
    PROVE  job'[t].pc \notin RideLabels
<1> USE DEF Start, Begin, Goto, Aim, Done, Run, Handler, Idle, RideLabels, At, Typed, TypeOK
<1>1. CASE Update(t)
  BY <1>1
  DEF Granting, Update, JoinClick, ReserveClick, DeclineClick, GuestsClick, GuestsMessage,
      SeekClick, DriverClick, PassengerClick, SeatsMessage, ManualDriver, ManualAdd, EditLimit,
      DeleteClick
<1>2. CASE Work(t)
  BY <1>2
  DEF Work, InsertSnapshot, InsertWrite, InsertReserve, PromoteSnapshot, PromoteWrite,
      DemoteRiders, DemoteWrite, RemoveRiders, RemoveWrite, PickCheck, PickSelect, PickWrite,
      NotifyPromoted, GuestCheck, GuestWrite, SeekWrite, DriveWrite, RideWrite, EnsureMain,
      CancelMark, CancelClear
<1> QED
  BY <1>1, <1>2

-----------------------------------------------------------------------------
(* A passenger's row is written: his driver has at most one passenger more, *)
(* another driver none.                                                     *)
LEMMA RideAdds ==
    ASSUME Typed, NEW t \in Tasks, RideWrite(t), NEW d \in Users
    PROVE  /\ \A v \in Passengers(d)' : v \in Passengers(d) \/ (v = job[t].who /\ job[t].tgt = d)
           /\ Cardinality(Passengers(d)') \in Nat
           /\ Cardinality(Passengers(d)') <= Cardinality(Passengers(d)) + 1
           /\ job[t].tgt # d => Cardinality(Passengers(d)') <= Cardinality(Passengers(d))
<1>1. job[t].who \in Users /\ row \in [Users -> Rows]
  BY DEF RideWrite, Typed, TypeOK, JobOK
<1>2. \A u \in Users : row'[u] = IF u = job[t].who THEN AsPassenger(row[u], job[t].tgt) ELSE row[u]
  BY <1>1 DEF RideWrite, Store
<1>3. \A v \in Passengers(d)' : v \in Passengers(d) \/ (v = job[t].who /\ job[t].tgt = d)
  <2>1. \A v \in Passengers(d)' : v \in Users /\ row'[v].status = "passenger" /\ row'[v].driver = d
    BY DEF Passengers, Riders
  <2>2. \A v \in Passengers(d)' \ {job[t].who} : v \in Passengers(d)
    BY <2>1, <1>2 DEF Passengers, Riders
  <2>3. job[t].who \in Passengers(d)' => job[t].tgt = d
    <3>1. row'[job[t].who].driver = AsPassenger(row[job[t].who], job[t].tgt).driver
      BY <1>1, <1>2
    <3>2. AsPassenger(row[job[t].who], job[t].tgt).driver = job[t].tgt
      BY DEF AsPassenger
    <3> QED
      BY <3>1, <3>2, <2>1
  <2> QED
    BY <2>2, <2>3
<1> DEFINE all == Passengers(d) \union {job[t].who}
<1>4. IsFiniteSet(Passengers(d)) /\ Cardinality(Passengers(d)) \in Nat
  BY CarFinite
<1>5. /\ IsFiniteSet(all)
      /\ \/ Cardinality(all) = Cardinality(Passengers(d))
         \/ Cardinality(all) = Cardinality(Passengers(d)) + 1
  BY <1>4, FS_AddElement
<1>6. Passengers(d)' \subseteq all /\ (job[t].tgt # d => Passengers(d)' \subseteq Passengers(d))
  BY <1>3
<1> HIDE DEF all
<1>7. /\ Cardinality(Passengers(d)') <= Cardinality(all)
      /\ Cardinality(Passengers(d)') \in Nat /\ Cardinality(all) \in Nat
      /\ job[t].tgt # d => Cardinality(Passengers(d)') <= Cardinality(Passengers(d))
  BY <1>4, <1>5, <1>6, FS_Subset, FS_CardinalityType
<1> QED
  BY <1>3, <1>4, <1>5, <1>7

(* He and the task that wrote him change places. *)
LEMMA RideKeepsClaims ==
    ASSUME Typed, ClaimsBounded, NEW t \in Tasks, RideWrite(t), NEW d \in Users
    PROVE  SeatsClaimed(d)' <= CarBound(d)
<1>1. (\A s \in Tasks \ {t} : job'[s] = job[s]) /\ job'[t].pc \notin RideLabels
  BY DEF RideWrite, Goto, Aim, Done, Run, Handler, Idle, At, RideLabels, Typed, TypeOK
<1>2. Boarding(d)' = Boarding(d) \ {t}
  BY <1>1 DEF Boarding
<1>3. SeatsClaimed(d) <= CarBound(d) /\ CarBound(d) \in Nat
  BY PlacesType DEF ClaimsBounded
<1>4. CASE job[t].tgt = d
  <2>1. t \in Boarding(d)
    BY <1>4 DEF RideWrite, Boarding, RideLabels
  <2>2. Cardinality(Boarding(d)') = Cardinality(Boarding(d)) - 1
    BY <2>1, <1>2, CarFinite, FS_RemoveElement
  <2> QED
    BY <2>2, <1>3, CarFinite, RideAdds DEF SeatsClaimed
<1>5. CASE job[t].tgt # d
  <2>1. Cardinality(Boarding(d)') <= Cardinality(Boarding(d)) /\ Cardinality(Boarding(d)') \in Nat
    BY <1>2, CarFinite, FS_Subset, FS_CardinalityType
  <2> QED
    BY <2>1, <1>3, <1>5, CarFinite, RideAdds DEF SeatsClaimed
<1> QED
  BY <1>4, <1>5

(* A seat is granted: the passengers written leave it, the others board.   *)
LEMMA GrantKeepsClaims ==
    ASSUME Typed, ClaimsBounded, NEW t \in Tasks, NEW u \in Users, NEW d \in Users,
           ChooseDriver(t, u, d) \/ ManualPassenger(t, u, d), NEW e \in Users
    PROVE  SeatsClaimed(e)' <= CarBound(e)
<1>1. /\ Passengers(e)' = Passengers(e) /\ FreeSeats(d) > 0
      /\ job[t].pc = "idle" /\ job'[t].tgt = d
      /\ \A s \in Tasks \ {t} : job'[s] = job[s]
  BY DEF ChooseDriver, ManualPassenger, table, Passengers, Riders, Start, Run, Handler, Typed, TypeOK
<1>2. SeatsClaimed(e) <= CarBound(e) /\ CarBound(e) \in Nat
  BY PlacesType DEF ClaimsBounded
<1>3. CASE e = d
  <2>1. Cardinality(Passengers(d)) <= CarPlaces(d) - 1
    <3>1. Cardinality(Passengers(d)) <= row[d].seats - 2 /\ row[d].seats <= offered[d]
      BY <1>1, FreeSeatMeans DEF ClaimsBounded
    <3> QED
      BY <3>1, PlacesType, CarFinite, ParticipationAssumption
  <2>2. Boarding(d)' \subseteq Tasks
    BY DEF Boarding
  <2>3. Cardinality(Boarding(d)') <= Cardinality(Tasks) /\ Cardinality(Boarding(d)') \in Nat
    BY <2>2, ParticipationAssumption, FS_Subset, FS_CardinalityType
  <2> QED
    BY <1>1, <1>3, <2>1, <2>3, CarFinite, PlacesType DEF SeatsClaimed
<1>4. CASE e # d
  <2>1. Boarding(e)' = Boarding(e)
    BY <1>1, <1>4 DEF Boarding, RideLabels
  <2> QED
    BY <2>1, <1>1, <1>2 DEF SeatsClaimed
<1> QED
  BY <1>3, <1>4

(* Counted against the seats offered so far no step claims too much; and a   *)
(* statement, which alone may lower them, ends its handler's claim.         *)
LEMMA ClaimsKept ==
    ASSUME Typed, ClaimsBounded, [Next]_vars, NEW d \in Users
    PROVE  SeatsClaimed(d)' <= CarBound(d)
<1>1. CASE \E t \in Tasks : RideWrite(t)
  BY <1>1, RideKeepsClaims
<1>2. CASE \E t \in Tasks : Granting(t)
  BY <1>2, GrantKeepsClaims DEF Granting
<1>3. CASE ~(\E t \in Tasks : RideWrite(t)) /\ ~(\E t \in Tasks : Granting(t))
  <2>1. Passengers(d)' \subseteq Passengers(d)
    BY <1>3, NobodyBoards
  <2>2. Boarding(d)' \subseteq Boarding(d)
    <3>1. ASSUME NEW t \in Tasks, Update(t) \/ Work(t)
          PROVE  Boarding(d)' \subseteq Boarding(d)
      BY <3>1, <1>3, NobodyIsGranted, OneMoves DEF Boarding
    <3>2. CASE Restart \/ UNCHANGED vars
      BY <3>2 DEF Restart, vars, Boarding, RideLabels, Idle, Handler
    <3> QED
      BY <3>1, <3>2 DEF Next
  <2>3. /\ Cardinality(Passengers(d)') <= Cardinality(Passengers(d))
        /\ Cardinality(Passengers(d)') \in Nat
        /\ Cardinality(Boarding(d)') <= Cardinality(Boarding(d))
        /\ Cardinality(Boarding(d)') \in Nat
    BY <2>1, <2>2, CarFinite, FS_Subset, FS_CardinalityType
  <2>4. SeatsClaimed(d) <= CarBound(d) /\ CarBound(d) \in Nat
    BY PlacesType DEF ClaimsBounded
  <2> QED
    BY <2>3, <2>4, CarFinite DEF SeatsClaimed
<1> QED
  BY <1>1, <1>2, <1>3

LEMMA SomeoneIsNotBoarding ==
    ASSUME Typed, [Next]_vars, NEW d \in Users, offered'[d] # offered[d]
    PROVE  /\ Cardinality(Boarding(d)') <= Cardinality(Tasks) - 1
           /\ Cardinality(Boarding(d)') \in Nat
<1>1. PICK t \in Tasks : Update(t) \/ Work(t)
  BY DEF Next, Restart, vars, table
<1>2. ~Granting(t)
  BY DEF Granting, ChooseDriver, ManualPassenger, table
<1>3. Boarding(d)' \subseteq Tasks \ {t}
  BY <1>1, <1>2, NobodyIsGranted DEF Boarding
<1>4. /\ IsFiniteSet(Tasks \ {t}) /\ Cardinality(Tasks \ {t}) = Cardinality(Tasks) - 1
  BY ParticipationAssumption, FS_RemoveElement
<1>5. /\ Cardinality(Boarding(d)') <= Cardinality(Tasks \ {t})
      /\ Cardinality(Boarding(d)') \in Nat
  BY <1>3, <1>4, FS_Subset, FS_CardinalityType
<1> QED
  BY <1>4, <1>5

LEMMA ClaimsNext == Typed /\ ClaimsBounded /\ [Next]_vars => ClaimsBounded'
<1> SUFFICES ASSUME Typed, ClaimsBounded, [Next]_vars, NEW d \in Users
             PROVE  row'[d].seats <= offered'[d] /\ SeatsClaimed(d)' <= CarBound(d)'
  BY DEF ClaimsBounded
<1>1. row'[d].seats <= offered'[d] /\ (offered'[d] >= offered[d] \/ Passengers(d)' = {})
  BY OffersNext
<1>2. /\ offered[d] \in Nat /\ offered'[d] \in Nat
      /\ CarPlaces(d) \in Nat /\ CarPlaces(d)' \in Nat
      /\ CarBound(d) = CarPlaces(d) + Cardinality(Tasks) - 1
      /\ CarBound(d)' = CarPlaces(d)' + Cardinality(Tasks) - 1
      /\ Cardinality(Tasks) \in Nat
  <2>1. offered'[d] \in 0..MaxSeats
    BY NextTyped DEF Typed, TypeOK
  <2>2. CarPlaces(d)' \in Nat
    BY <2>1, ParticipationAssumption DEF CarPlaces
  <2> QED
    BY <2>1, <2>2, PlacesType, CarFinite, ParticipationAssumption DEF CarBound
<1>3. CASE offered'[d] >= offered[d]
  <2>1. CarPlaces(d)' >= CarPlaces(d)
    BY <1>2, <1>3 DEF CarPlaces
  <2>2. SeatsClaimed(d)' <= CarBound(d) /\ SeatsClaimed(d)' \in Nat
    <3>1. IsFiniteSet(Passengers(d)') /\ IsFiniteSet(Boarding(d)')
      <4>1. Passengers(d)' \subseteq Users /\ Boarding(d)' \subseteq Tasks
        BY DEF Passengers, Riders, Boarding
      <4> QED
        BY <4>1, ParticipationAssumption, FS_Subset
    <3> QED
      BY <3>1, ClaimsKept, FS_CardinalityType DEF SeatsClaimed
  <2> QED
    BY <1>1, <1>2, <2>1, <2>2
<1>4. CASE ~(offered'[d] >= offered[d])
  <2>1. Cardinality(Passengers(d)') = 0
    BY <1>1, <1>4, FS_EmptySet
  <2>2. /\ Cardinality(Boarding(d)') <= Cardinality(Tasks) - 1
        /\ Cardinality(Boarding(d)') \in Nat
    <3>1. offered'[d] # offered[d]
      BY <1>2, <1>4
    <3> QED
      BY <3>1, SomeoneIsNotBoarding
  <2> QED
    BY <1>1, <1>2, <2>1, <2>2 DEF SeatsClaimed
<1> QED
  BY <1>3, <1>4

(* However many boardings overlap, a car holds no more passengers than its   *)
(* driver has offered places since it was empty, and one for each of the     *)
(* other handlers in flight.                                                 *)
THEOREM CarIsBounded == Spec => []CarBounded
<1>1. Init => ClaimsBounded
  <2> SUFFICES ASSUME Init, NEW d \in Users
               PROVE  row[d].seats <= offered[d] /\ SeatsClaimed(d) <= CarBound(d)
    BY DEF ClaimsBounded
  <2>1. Passengers(d) = {} /\ Boarding(d) = {} /\ row[d].seats = 0 /\ offered[d] = 0
    BY DEF Init, Passengers, Riders, Boarding, NoRow, Fresh, Idle, Handler, RideLabels
  <2>2. Cardinality(Tasks) \in Nat \ {0}
    BY ParticipationAssumption, FS_CardinalityType, FS_EmptySet
  <2> QED
    BY <2>1, <2>2, FS_EmptySet DEF SeatsClaimed, CarBound, CarPlaces
<1>2. Typed /\ ClaimsBounded /\ [Next]_vars => Typed' /\ ClaimsBounded'
  BY NextTyped, ClaimsNext
<1>3. Typed /\ ClaimsBounded => CarBounded
  <2> SUFFICES ASSUME Typed, ClaimsBounded, NEW d \in Users
               PROVE  Cardinality(Passengers(d)) <= CarBound(d)
    BY DEF CarBounded
  <2> QED
    BY CarFinite, PlacesType DEF ClaimsBounded, SeatsClaimed
<1> QED
  BY <1>1, <1>2, <1>3, InitTyped, PTL DEF Spec

=============================================================================
