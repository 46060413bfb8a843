--------------------------- MODULE SplitBillProofs ---------------------------
(***************************************************************************)
(* Proofs about SplitBill, for any number of members and of handlers.      *)
(*                                                                         *)
(* A share that is still 0 is awaited whatever overlaps; that needs only   *)
(* that a recalculation never divides by nobody (JobShape).  That shares   *)
(* agree is carried through the one handler that changes them (LoneSharer):*)
(* the rows it has not updated yet are those it still has to update        *)
(* (Recalculating).  That a closed bill is paid rests on there being no    *)
(* other handler when it is closed (LoneCloser), and on handlers touching  *)
(* the rows of an open bill alone (BusyOpen).  The second half shows that  *)
(* its statements are entries of a Ledger.                                 *)
(***************************************************************************)
EXTENDS SplitBill, FiniteSetTheorems, TLAPS

JobShape ==
    \A t \in Tasks : /\ job[t].pc = "idle" => job[t] = Idle
                     /\ job[t].pc = "write" => job[t].num # 0

LoneSharer == ~raced => \A t, s \in Tasks : Sharing(t) /\ Sharing(s) => t = s

LoneCloser == ~contested => \A t, s \in Tasks : Closing(t) /\ Busy(s) => t = s

Agree == \A u \in members : share[u] = Cardinality(members)

Recalculating ==
    ~raced =>
        /\ ~broken /\ (\A t \in Tasks : ~Sharing(t)) => Agree
        /\ \A t \in Tasks : job[t].pc = "write" =>
              /\ job[t].num = Cardinality(members)
              /\ \A u \in members : u \in job[t].todo \/ share[u] = job[t].num

BusyOpen ==
    ~contested => \A t \in Tasks :
        /\ job[t].pc \in {"insert", "delete", "read", "write", "publish"} => status = "open"
        /\ job[t].pc = "close" => members \subseteq paid

IInv == /\ TypeOK /\ JobShape /\ ShareAwaited /\ LoneSharer /\ LoneCloser
        /\ Recalculating /\ BusyOpen /\ ClosedIsPaid

-----------------------------------------------------------------------------
(* The members can be counted. *)
LEMMA MembersAreCounted ==
    ASSUME members \subseteq Users
    PROVE  Cardinality(members) \in Nat /\ (members # {} => Cardinality(members) # 0)
  <1>1. IsFiniteSet(members)
    BY SplitBillAssumption, FS_Subset
  <1> QED
    BY <1>1, FS_CardinalityType, FS_EmptySet

(* A handler that begins changes nothing but its own job. *)
LEMMA BeginPreserves ==
    ASSUME IInv, NEW t \in Tasks,
           NEW pc \in {"insert", "delete", "paid_read", "close_read"},
           NEW queue \in SUBSET Users, NEW then \in {"idle", "publish"},
           Begin(t, pc, queue, then),
           status' = status \/ (status = "none" /\ status' = "open"),
           pc \in {"insert", "delete"} => status' = "open",
           UNCHANGED <<published, members, paid, share>>
    PROVE  IInv'
  <1>1. /\ job[t] = Idle /\ job[t].pc = "idle"
        /\ job' = [job EXCEPT ![t] = [pc |-> pc, queue |-> queue, todo |-> {}, num |-> 0,
                                      then |-> then]]
        /\ raced' = IF pc \in {"insert", "delete"} THEN \E s \in Tasks : Sharing(s) ELSE raced
        /\ contested' = (contested \/ \E s \in Tasks : Busy(s) /\ (Closing(s) \/ pc = "close_read"))
        /\ UNCHANGED broken
    BY DEF Begin, Job, IInv, JobShape
  <1>2. TypeOK'
    BY <1>1 DEF IInv, TypeOK, Jobs
  <1>3. JobShape'
    BY <1>1 DEF IInv, TypeOK, JobShape
  <1>4. ShareAwaited'
    BY <1>1 DEF IInv, TypeOK, ShareAwaited
  <1>5. LoneSharer'
    BY <1>1 DEF IInv, TypeOK, LoneSharer, Sharing
  <1>6. LoneCloser'
    BY <1>1 DEF IInv, TypeOK, LoneCloser, Closing, Busy
  <1>7. Recalculating'
    BY <1>1 DEF IInv, TypeOK, Recalculating, Agree, Sharing
  <1>8. BusyOpen'
    BY <1>1 DEF IInv, TypeOK, BusyOpen
  <1>9. ClosedIsPaid'
    BY <1>1 DEF IInv, ClosedIsPaid
  <1> QED
    BY <1>2, <1>3, <1>4, <1>5, <1>6, <1>7, <1>8, <1>9 DEF IInv

(* The handlers begin so: each finds the bill as it wants it. *)
LEMMA FirstStepsPreserve ==
    ASSUME IInv, NEW t \in Tasks,
           Finalize(t) \/ CloseConfirm(t) \/ \E u \in Users : UserStep(t, u)
    PROVE  IInv'
  <1>1. CASE Finalize(t)
    <2>1. PICK going \in SUBSET Users : Begin(t, "insert", going \union {Organizer}, "publish")
      BY <1>1 DEF Finalize
    <2>2. going \union {Organizer} \in SUBSET Users
      BY SplitBillAssumption
    <2> QED
      BY <1>1, <2>1, <2>2, BeginPreserves DEF Finalize, Rows
  <1>2. CASE CloseConfirm(t)
    BY <1>2, BeginPreserves DEF CloseConfirm, Rows
  <1>3. CASE \E u \in Users : UserStep(t, u)
    <2>1. PICK u \in Users : UserStep(t, u)
      BY <1>3
    <2>2. {u} \in SUBSET Users
      OBVIOUS
    <2> QED
      BY <2>1, <2>2, BeginPreserves
         DEF UserStep, JoinClick, LeaveClick, PaidClick, AddCommand, RemoveCommand, Rows
  <1> QED
    BY <1>1, <1>2, <1>3

(* A statement of add_split_bill_participant or remove_split_bill_participant. *)
LEMMA RowStepsPreserve ==
    ASSUME IInv, NEW t \in Tasks, Insert(t) \/ Delete(t)
    PROVE  IInv'
  <1>1. PICK u \in job[t].queue :
          /\ \/ members' = members \union {u} /\ job[t].pc = "insert"
             \/ members' = members \ {u} /\ job[t].pc = "delete"
          /\ paid' = paid \ {u}
          /\ share' = [share EXCEPT ![u] = 0]
          /\ job' = [job EXCEPT ![t].pc = "read", ![t].queue = @ \ {u}]
          /\ UNCHANGED <<status, published, raced, broken, contested>>
    BY DEF Insert, Delete, ghosts
  <1>2. u \in Users /\ job[t] \in Jobs
    BY DEF IInv, TypeOK, Jobs
  <1>3. TypeOK'
    BY <1>1, <1>2 DEF IInv, TypeOK, Jobs
  <1>4. JobShape'
    BY <1>1, <1>2 DEF IInv, TypeOK, Jobs, JobShape
  <1>5. ShareAwaited'
    BY <1>1, <1>2 DEF IInv, TypeOK, Jobs, ShareAwaited
  <1>6. LoneSharer' /\ LoneCloser'
    BY <1>1, <1>2 DEF IInv, TypeOK, Jobs, LoneSharer, LoneCloser, Sharing, Closing, Busy
  <1>7. Recalculating'
    BY <1>1, <1>2 DEF IInv, TypeOK, Jobs, LoneSharer, Sharing, Recalculating
  <1>8. BusyOpen'
    BY <1>1, <1>2 DEF IInv, TypeOK, Jobs, LoneCloser, Closing, Busy, BusyOpen
  <1>9. ClosedIsPaid'
    BY <1>1, <1>2 DEF IInv, TypeOK, BusyOpen, ClosedIsPaid
  <1> QED
    BY <1>3, <1>4, <1>5, <1>6, <1>7, <1>8, <1>9 DEF IInv

(* After a recalculation the handler goes on with its next participant, puts *)
(* the card into the group, or is at its end.                                *)
LEMMA AfterRecalculationShape ==
    ASSUME TypeOK, NEW t \in Tasks
    PROVE  /\ AfterRecalculation(t) \in Jobs
           /\ AfterRecalculation(t).pc \in {"insert", "idle", "publish"}
           /\ AfterRecalculation(t).pc = "idle" => AfterRecalculation(t) = Idle
  <1>1. job[t] \in Jobs
    BY DEF TypeOK
  <1> QED
    BY <1>1 DEF AfterRecalculation, Job, Jobs, Idle

(* A recalculation begins: it knows all members and their number, or has *)
(* nothing to do.                                                        *)
LEMMA ReadPreserves ==
    ASSUME IInv, NEW t \in Tasks, RecalculateRead(t)
    PROVE  IInv'
  <1> DEFINE next == AfterRecalculation(t)
  <1>1. /\ job[t] \in Jobs /\ job[t].pc = "read"
        /\ broken' = FALSE
        /\ UNCHANGED <<status, published, members, paid, share, raced, contested>>
    BY DEF IInv, TypeOK, RecalculateRead, Rows
  <1>2. /\ Cardinality(members) \in Nat
        /\ members # {} => Cardinality(members) # 0
    BY MembersAreCounted DEF IInv, TypeOK
  <1>3. CASE members = {}
    <2>1. job' = [job EXCEPT ![t] = next]
      BY <1>3 DEF RecalculateRead, Sharers
    <2>2. /\ next \in Jobs /\ next.pc \in {"insert", "idle", "publish"}
          /\ next.pc = "idle" => next = Idle
      BY AfterRecalculationShape DEF IInv
    <2> HIDE DEF next
    <2>3. TypeOK'
      BY <1>1, <2>1, <2>2 DEF IInv, TypeOK
    <2>4. JobShape' /\ LoneSharer' /\ LoneCloser'
      BY <1>1, <2>1, <2>2
         DEF IInv, TypeOK, JobShape, LoneSharer, LoneCloser, Sharing, Closing, Busy
    <2>5. ShareAwaited' /\ Recalculating'
      BY <1>1, <1>3, <2>1, <2>2
         DEF IInv, TypeOK, ShareAwaited, LoneSharer, Sharing, Recalculating, Agree
    <2>6. BusyOpen' /\ ClosedIsPaid'
      BY <1>1, <2>1, <2>2 DEF IInv, TypeOK, BusyOpen, ClosedIsPaid
    <2> QED
      BY <2>3, <2>4, <2>5, <2>6 DEF IInv
  <1>4. CASE members # {}
    <2>1. job' = [job EXCEPT ![t] = Updating(t, members, Cardinality(members))]
      BY <1>4 DEF RecalculateRead, Sharers
    <2> USE DEF Updating
    <2>2. TypeOK'
      BY <1>1, <1>2, <2>1 DEF IInv, TypeOK, Jobs
    <2>3. JobShape' /\ LoneSharer' /\ LoneCloser'
      BY <1>1, <1>2, <1>4, <2>1
         DEF IInv, TypeOK, Jobs, JobShape, LoneSharer, LoneCloser, Sharing, Closing, Busy
    <2>4. ShareAwaited'
      BY <1>1, <2>1 DEF IInv, TypeOK, Jobs, ShareAwaited
    <2>5. Recalculating'
      BY <1>1, <2>1 DEF IInv, TypeOK, Jobs, LoneSharer, Sharing, Recalculating
    <2>6. BusyOpen' /\ ClosedIsPaid'
      BY <1>1, <2>1 DEF IInv, TypeOK, Jobs, BusyOpen, ClosedIsPaid
    <2> QED
      BY <2>2, <2>3, <2>4, <2>5, <2>6 DEF IInv
  <1> QED
    BY <1>3, <1>4

(* One UPDATE of a recalculation. *)
LEMMA WritePreserves ==
    ASSUME IInv, NEW t \in Tasks, RecalculateWrite(t)
    PROVE  IInv'
  <1> DEFINE next == AfterRecalculation(t)
             rest(v) == [pc |-> "write", queue |-> job[t].queue, todo |-> job[t].todo \ {v},
                         num |-> job[t].num, then |-> job[t].then]
  <1>1. PICK u \in job[t].todo :
          /\ share' = [share EXCEPT ![u] = IF u \in members THEN job[t].num ELSE @]
          /\ job' = [job EXCEPT ![t] = IF job[t].todo = {u} THEN next ELSE rest(u)]
    BY DEF RecalculateWrite, Updating
  <1>2. /\ job[t] \in Jobs /\ job[t].pc = "write" /\ job[t].num # 0 /\ u \in Users
        /\ UNCHANGED <<status, published, members, paid, raced, broken, contested>>
    BY DEF IInv, TypeOK, JobShape, Jobs, RecalculateWrite, ghosts
  <1>3. /\ next \in Jobs /\ next.pc \in {"insert", "idle", "publish"}
        /\ next.pc = "idle" => next = Idle
    BY AfterRecalculationShape DEF IInv
  <1> HIDE DEF next
  <1>4. TypeOK'
    BY <1>1, <1>2, <1>3 DEF IInv, TypeOK, Jobs
  <1>5. JobShape' /\ LoneSharer' /\ LoneCloser'
    BY <1>1, <1>2, <1>3
       DEF IInv, TypeOK, Jobs, JobShape, LoneSharer, LoneCloser, Sharing, Closing, Busy
  <1>6. ShareAwaited'
    BY <1>1, <1>2, <1>3 DEF IInv, TypeOK, Jobs, ShareAwaited
  <1>7. Recalculating'
    <2>1. SUFFICES ASSUME ~raced
                   PROVE  /\ ~broken /\ (\A s \in Tasks : ~Sharing(s)') => Agree'
                          /\ \A s \in Tasks : job'[s].pc = "write" =>
                                /\ job'[s].num = Cardinality(members)
                                /\ \A v \in members : v \in job'[s].todo \/ share'[v] = job'[s].num
      BY <1>2 DEF Recalculating
    <2>2. /\ job[t].num = Cardinality(members)
          /\ \A v \in members : v \in job[t].todo \/ share[v] = job[t].num
      BY <1>2, <2>1 DEF IInv, Recalculating
    <2>3. \A s \in Tasks \ {t} : job'[s].pc # "write"
      BY <1>1, <1>2, <2>1 DEF IInv, TypeOK, LoneSharer, Sharing
    <2>4. \A v \in members : v \in job[t].todo \ {u} \/ share'[v] = job[t].num
      BY <1>1, <1>2, <2>2 DEF IInv, TypeOK
    <2>5. CASE job[t].todo = {u}
      <3>1. Agree'
        BY <1>2, <2>2, <2>4, <2>5 DEF Agree
      <3>2. job'[t] = next
        BY <1>1, <2>5 DEF IInv, TypeOK
      <3> QED
        BY <1>3, <2>3, <3>1, <3>2
    <2>6. CASE job[t].todo # {u}
      <3>1. job'[t].pc = "write" /\ job'[t].num = job[t].num /\ job'[t].todo = job[t].todo \ {u}
        BY <1>1, <2>6 DEF IInv, TypeOK
      <3> QED
        BY <2>2, <2>3, <2>4, <3>1 DEF Sharing
    <2> QED
      BY <2>5, <2>6
  <1>8. BusyOpen' /\ ClosedIsPaid'
    BY <1>1, <1>2, <1>3 DEF IInv, TypeOK, Jobs, BusyOpen, ClosedIsPaid
  <1> QED
    BY <1>4, <1>5, <1>6, <1>7, <1>8 DEF IInv

(* The steps that read or write a payment, close the bill or publish it. *)
LEMMA LastStepsPreserve ==
    ASSUME IInv, NEW t \in Tasks,
           Publish(t) \/ PaidRead(t) \/ PaidWrite(t) \/ CloseRead(t) \/ CloseWrite(t)
    PROVE  IInv'
  <1>1. job[t] \in Jobs
    BY DEF IInv, TypeOK
  <1>2. /\ UNCHANGED <<members, share, raced, broken, contested>>
        /\ \/ /\ job[t].pc = "publish" /\ UNCHANGED <<status, paid>> /\ published' \in BOOLEAN
              /\ job' = [job EXCEPT ![t] = Idle]
           \/ /\ job[t].pc = "paid_read" /\ UNCHANGED <<status, paid, published>>
              /\ \/ job' = [job EXCEPT ![t] = Idle]
                 \/ job' = [job EXCEPT ![t] = Job("paid", job[t].queue, "idle")]
           \/ /\ job[t].pc = "close_read" /\ UNCHANGED <<status, paid, published>>
              /\ \/ job' = [job EXCEPT ![t] = Idle]
                 \/ Ready /\ job' = [job EXCEPT ![t] = Job("close", {}, "idle")]
           \/ /\ job[t].pc = "paid" /\ UNCHANGED <<status, published>>
              /\ paid' = paid \union (job[t].queue \intersect members)
              /\ job' = [job EXCEPT ![t] = Idle]
           \/ /\ job[t].pc = "close" /\ status' = "closed" /\ UNCHANGED <<paid, published>>
              /\ job' = [job EXCEPT ![t] = Idle]
    <2>1. CASE Publish(t)
      BY <2>1 DEF Publish, Rows, ghosts
    <2>2. CASE PaidRead(t)
      BY <2>2 DEF PaidRead, Rows, ghosts
    <2>3. CASE PaidWrite(t)
      BY <2>3 DEF PaidWrite, PaidRows, ghosts
    <2>4. CASE CloseRead(t)
      BY <2>4 DEF CloseRead, Rows, ghosts
    <2>5. CASE CloseWrite(t)
      BY <2>5 DEF CloseWrite, Rows, ghosts
    <2> QED
      BY <2>1, <2>2, <2>3, <2>4, <2>5
  <1>3. TypeOK'
    BY <1>1, <1>2 DEF IInv, TypeOK, Jobs, Idle, Job
  <1>4. /\ job[t].pc \in {"publish", "paid_read", "paid", "close_read", "close"}
        /\ job'[t].pc \in {"idle", "paid", "close"}
        /\ job'[t].pc = "idle" => job'[t] = Idle
        /\ job'[t].pc = "close" => job[t].pc = "close_read" /\ members' \subseteq paid'
        /\ \A s \in Tasks \ {t} : job'[s] = job[s]
    <2>1. /\ job'[t] \in {Idle, Job("paid", job[t].queue, "idle"), Job("close", {}, "idle")}
          /\ \/ job[t].pc = "close_read" /\ members' \subseteq paid'
             \/ job'[t] \in {Idle, Job("paid", job[t].queue, "idle")}
      BY <1>2 DEF IInv, TypeOK, Ready
    <2>2. /\ job[t].pc \in {"publish", "paid_read", "paid", "close_read", "close"}
          /\ \A s \in Tasks \ {t} : job'[s] = job[s]
      BY <1>2 DEF IInv, TypeOK
    <2>3. /\ Idle.pc = "idle" /\ Job("close", {}, "idle").pc = "close"
          /\ Job("paid", job[t].queue, "idle").pc = "paid"
      BY DEF Idle, Job
    <2>4. job'[t].pc = "idle" => job'[t] = Idle
      BY <2>1, <2>3
    <2>5. job'[t].pc = "close" => job[t].pc = "close_read" /\ members' \subseteq paid'
      BY <2>1, <2>3
    <2> QED
      BY <2>1, <2>2, <2>3, <2>4, <2>5
  <1>5. JobShape'
    BY <1>4 DEF IInv, JobShape
  <1>6. LoneSharer' /\ LoneCloser'
    BY <1>2, <1>4 DEF IInv, LoneSharer, LoneCloser, Sharing, Closing, Busy
  <1>7. ShareAwaited'
    BY <1>2, <1>4 DEF IInv, ShareAwaited
  <1>8. Recalculating'
    BY <1>2, <1>4 DEF IInv, Sharing, Recalculating, Agree
  <1>9. BusyOpen'
    <2>1. SUFFICES ASSUME ~contested, NEW s \in Tasks
                   PROVE  /\ job'[s].pc \in {"insert", "delete", "read", "write", "publish"}
                               => status' = "open"
                          /\ job'[s].pc = "close" => members' \subseteq paid'
      BY <1>2 DEF BusyOpen
    <2>2. CASE s = t
      BY <1>4, <2>2
    <2>3. CASE s # t
      <3>1. /\ job'[s] = job[s]
            /\ job[s].pc \in {"insert", "delete", "read", "write", "publish"} => status = "open"
            /\ job[s].pc = "close" => members \subseteq paid
        BY <1>4, <2>1, <2>3 DEF IInv, BusyOpen
      <3>2. job[t].pc = "close" => job[s].pc = "idle"
        BY <2>1, <2>3 DEF IInv, LoneCloser, Closing, Busy
      <3> QED
        BY <1>2, <3>1, <3>2
    <2> QED
      BY <2>2, <2>3
  <1>10. ClosedIsPaid'
    BY <1>1, <1>2 DEF IInv, TypeOK, BusyOpen, ClosedIsPaid
  <1> QED
    BY <1>3, <1>5, <1>6, <1>7, <1>8, <1>9, <1>10 DEF IInv

(* Handlers that stop where they are. *)
LEMMA BreakPreserves ==
    ASSUME IInv, Break
    PROVE  IInv'
  <1>1. /\ job' \in [Tasks -> Jobs]
        /\ \A t \in Tasks : job'[t] = job[t] \/ (job'[t] = Idle /\ (Sharing(t) => broken'))
        /\ broken' \in BOOLEAN /\ (broken => broken')
        /\ UNCHANGED <<status, published, members, paid, share, raced, contested>>
    <2>1. PICK stopped \in {Tasks} \union {{t} : t \in Tasks} :
            /\ job' = [t \in Tasks |-> IF t \in stopped THEN Idle ELSE job[t]]
            /\ broken' = (broken \/ \E t \in stopped : Sharing(t))
      BY DEF Break
    <2>2. Idle \in Jobs
      BY DEF Idle, Job, Jobs
    <2>3. \A t \in Tasks : job'[t] = IF t \in stopped THEN Idle ELSE job[t]
      BY <2>1
    <2>4. broken' \in BOOLEAN /\ (broken => broken') /\ \A t \in stopped : Sharing(t) => broken'
      BY <2>1 DEF IInv, TypeOK
    <2>5. UNCHANGED <<status, published, members, paid, share, raced, contested>>
      BY DEF Break, Rows
    <2>6. job' \in [Tasks -> Jobs]
      BY <2>1, <2>2 DEF IInv, TypeOK
    <2> QED
      BY <2>3, <2>4, <2>5, <2>6
  <1>2. TypeOK' /\ ClosedIsPaid'
    BY <1>1 DEF IInv, TypeOK, ClosedIsPaid
  <1>3. JobShape' /\ LoneSharer' /\ LoneCloser' /\ BusyOpen'
    BY <1>1 DEF IInv, JobShape, LoneSharer, LoneCloser, Sharing, Closing, Busy, BusyOpen, Idle, Job
  <1>4. ShareAwaited'
    BY <1>1 DEF IInv, ShareAwaited, Sharing
  <1>5. Recalculating'
    BY <1>1 DEF IInv, Recalculating, Sharing, Agree, Idle, Job
  <1> QED
    BY <1>2, <1>3, <1>4, <1>5 DEF IInv

-----------------------------------------------------------------------------
(* The invariant holds initially and every step keeps it. *)
THEOREM InvariantHolds == Spec => []IInv
  <1>1. Init => IInv
    <2>1. SUFFICES ASSUME Init PROVE IInv
      OBVIOUS
    <2>2. TypeOK
      BY <2>1 DEF Init, TypeOK, Jobs, Idle, Job
    <2>3. JobShape /\ ShareAwaited /\ LoneSharer /\ LoneCloser
      BY <2>1 DEF Init, JobShape, ShareAwaited, LoneSharer, LoneCloser, Sharing, Closing, Idle, Job
    <2>4. Recalculating /\ BusyOpen /\ ClosedIsPaid
      BY <2>1 DEF Init, Recalculating, Agree, BusyOpen, ClosedIsPaid, Idle, Job
    <2> QED
      BY <2>2, <2>3, <2>4 DEF IInv
  <1>2. IInv /\ Next => IInv'
    BY FirstStepsPreserve, RowStepsPreserve, ReadPreserves, WritePreserves, LastStepsPreserve,
       BreakPreserves
       DEF Next, TaskStep
  <1>3. IInv /\ UNCHANGED vars => IInv'
    BY DEF IInv, TypeOK, JobShape, ShareAwaited, LoneSharer, LoneCloser, Sharing, Closing, Busy,
           Recalculating, Agree, BusyOpen, ClosedIsPaid, vars, ghosts
  <1> QED
    BY <1>1, <1>2, <1>3, PTL DEF Spec

(* The variables of SplitBill keep their types; only a member can have paid. *)
THEOREM TypeCorrect == Spec => []TypeOK
  BY InvariantHolds, PTL DEF IInv

(* However many joins and departures overlap, a member whose share is still  *)
(* 0.0 has a recalculation before him, unless one broke off and none has     *)
(* read the members since.                                                   *)
THEOREM ZeroShareIsAwaited == Spec => []ShareAwaited
  BY InvariantHolds, PTL DEF IInv

(* When nobody is joining or leaving, everybody's share is the total divided *)
(* by the number of members, if the last change began alone and was not      *)
(* broken off: whatever went wrong before, it has mended.                    *)
THEOREM SharesAgreeAtRest == Spec => []SharesAgree
  <1>1. IInv => SharesAgree
    BY DEF IInv, Recalculating, Agree, SharesAgree
  <1> QED
    BY <1>1, InvariantHolds, PTL

(* Unless a handler runs while another is about to close the bill, a closed  *)
(* one has no debtor, however the others overlap or break off.               *)
THEOREM ClosedHasNoDebtor == Spec => []ClosedIsPaid
  BY InvariantHolds, PTL DEF IInv

-----------------------------------------------------------------------------
(***************************************************************************)
(* The ledger.  Each statement that writes a row or the status is one      *)
(* entry of the book, all others stutter.  That the entry is allowed is    *)
(* known from what the handler has read: the bill is open, and somebody    *)
(* takes part when it is closed (Current).                                 *)
(***************************************************************************)
(* A bill that is seen, or has a handler, is in the table. *)
Known == published \/ (\E t \in Tasks : job[t].pc # "idle") => status # "none"

(* What a handler has read is still so. *)
Current ==
    ~contested => \A t \in Tasks :
        /\ job[t].pc \in {"paid_read", "paid"} => status = "open" /\ \E u \in Users : job[t].queue = {u}
        /\ job[t].pc = "close" => members # {}

(* A handler begins: Known and Current hold of what it has found. *)
LEMMA BeginIsCurrent ==
    ASSUME IInv, Known, Current, NEW t \in Tasks,
           Finalize(t) \/ CloseConfirm(t) \/ \E u \in Users : UserStep(t, u)
    PROVE  Known' /\ Current' /\ [Book!Next]_(Book!vars)
  <1>1. PICK pc \in {"insert", "delete", "paid_read", "close_read"},
             queue \in SUBSET Users, then \in {"idle", "publish"} :
               /\ Begin(t, pc, queue, then)
               /\ status' # "none" /\ UNCHANGED <<published, members, paid>>
               /\ pc = "paid_read" => status' = "open" /\ \E u \in Users : queue = {u}
               /\ \/ status' = status
                  \/ status = "none" /\ status' = "open"
    <2>1. CASE Finalize(t)
      <3>1. PICK going \in SUBSET Users : Begin(t, "insert", going \union {Organizer}, "publish")
        BY <2>1 DEF Finalize
      <3>2. going \union {Organizer} \in SUBSET Users
        BY SplitBillAssumption
      <3> QED
        BY <2>1, <3>1, <3>2 DEF Finalize, Rows
    <2>2. CASE CloseConfirm(t)
      <3>1. Begin(t, "close_read", {}, "idle") /\ {} \in SUBSET Users
        BY <2>2 DEF CloseConfirm
      <3> QED
        BY <2>2, <3>1 DEF CloseConfirm, Rows, Known
    <2>3. ASSUME NEW u \in Users, UserStep(t, u)
          PROVE  /\ \E pc \in {"insert", "delete", "paid_read"} : Begin(t, pc, {u}, "idle")
                 /\ status = "open" /\ UNCHANGED <<status, published, members, paid>>
      BY <2>3 DEF UserStep, JoinClick, LeaveClick, PaidClick, AddCommand, RemoveCommand, Rows
    <2>4. ASSUME NEW u \in Users, UserStep(t, u)
          PROVE  \E pc \in {"insert", "delete", "paid_read"}, queue \in SUBSET Users :
                   queue = {u} /\ Begin(t, pc, queue, "idle")
      BY <2>3, <2>4
    <2> QED
      BY <2>1, <2>2, <2>3, <2>4
  <1>2. /\ job'[t].pc = pc /\ job'[t].queue = queue
        /\ \A s \in Tasks \ {t} : job'[s] = job[s]
        /\ contested' \in BOOLEAN /\ (contested => contested')
    BY <1>1 DEF Begin, Job, IInv, TypeOK
  <1>3. Known'
    BY <1>1 DEF Known
  <1>4. Current'
    BY <1>1, <1>2 DEF Current
  <1>5. [Book!Next]_(Book!vars)
    <2>1. CASE contested'
      BY <2>1 DEF Book!Next
    <2>2. ~contested' => contested' = contested
      BY <1>2 DEF IInv, TypeOK
    <2>3. CASE ~contested' /\ status' = status
      BY <1>1, <2>2, <2>3 DEF Book!vars
    <2>4. CASE ~contested' /\ status = "none" /\ status' = "open"
      BY <1>1, <2>2, <2>4 DEF Book!Open, Book!Entry, Book!Next
    <2> QED
      BY <1>1, <2>1, <2>3, <2>4
  <1> QED
    BY <1>3, <1>4, <1>5

(* A handler takes a step, or breaks off. *)
LEMMA StepIsCurrent ==
    ASSUME IInv, Known, Current, (\E t \in Tasks : TaskStep(t)) \/ Break
    PROVE  Known' /\ Current'
  <1>1. CASE Break
    BY <1>1 DEF Break, Rows, Known, Current, Idle, Job
  <1>2. ASSUME NEW t \in Tasks, TaskStep(t)
        PROVE  Known' /\ Current'
    <2>1. /\ job[t] \in Jobs /\ job[t].pc # "idle" /\ UNCHANGED contested
          /\ \A s \in Tasks \ {t} : job'[s] = job[s]
      BY <1>2 DEF IInv, TypeOK, TaskStep, Publish, Insert, Delete, RecalculateRead,
                  RecalculateWrite, PaidRead, PaidWrite, CloseRead, CloseWrite, ghosts
    <2>2. status # "none" /\ status' # "none"
      BY <1>2, <2>1 DEF Known, TaskStep, Publish, Insert, Delete, RecalculateRead,
                  RecalculateWrite, PaidRead, PaidWrite, CloseRead, CloseWrite
    <2>3. Known'
      BY <2>2 DEF Known
    <2>4. CASE contested
      BY <2>1, <2>3, <2>4 DEF Current
    <2>5. ASSUME ~contested
          PROVE  Current'
      <3>1. ASSUME NEW s \in Tasks \ {t}
            PROVE  /\ job'[s].pc \in {"paid_read", "paid"}
                        => status' = "open" /\ \E u \in Users : job'[s].queue = {u}
                   /\ job'[s].pc = "close" => members' # {}
        <4>1. job'[s] = job[s]
          BY <2>1
        <4>2. CASE job[s].pc = "close"
          BY <2>1, <2>5, <4>2 DEF IInv, LoneCloser, Closing, Busy
        <4>3. CASE job[s].pc \in {"paid_read", "paid"}
          <5>1. job[t].pc # "close"
            BY <2>5, <4>3 DEF IInv, LoneCloser, Closing, Busy
          <5>2. status' = status
            BY <1>2, <5>1 DEF TaskStep, Publish, Insert, Delete, RecalculateRead,
                  RecalculateWrite, PaidRead, PaidWrite, CloseRead, CloseWrite
          <5> QED
            BY <2>5, <4>1, <4>3, <5>2 DEF Current
        <4> QED
          BY <4>1, <4>2, <4>3
      <3>2. job'[t].pc \notin {"paid_read", "paid", "close"} => Current'
        BY <3>1 DEF Current
      <3>3. AfterRecalculation(t).pc \in {"insert", "idle", "publish"}
        BY AfterRecalculationShape DEF IInv
      <3>a. job \in [Tasks -> Jobs]
        BY DEF IInv, TypeOK
      <3>4. CASE Publish(t) \/ PaidWrite(t) \/ CloseWrite(t)
        <4>1. job'[t] = Idle
          BY <3>4, <3>a DEF Publish, PaidWrite, CloseWrite
        <4> QED
          BY <3>2, <4>1 DEF Idle, Job
      <3>5. CASE Insert(t) \/ Delete(t)
        <4>1. job'[t].pc = "read"
          BY <2>1, <3>5, <3>a DEF Insert, Delete, Jobs
        <4> QED
          BY <3>2, <4>1
      <3>6. CASE RecalculateRead(t) \/ RecalculateWrite(t)
        <4>1. job'[t].pc = "write" \/ job'[t] = AfterRecalculation(t)
          BY <3>6, <3>a DEF RecalculateRead, RecalculateWrite, Updating
        <4> QED
          BY <3>2, <3>3, <4>1
      <3>7. CASE PaidRead(t)
        <4>1. /\ job[t].pc = "paid_read"
              /\ job'[t] = Idle \/ job'[t] = Job("paid", job[t].queue, "idle")
          BY <3>7, <3>a DEF PaidRead
        <4>2. job'[t].pc = "idle" \/ (job'[t].pc = "paid" /\ job'[t].queue = job[t].queue)
          BY <4>1 DEF Job, Idle
        <4>3. PICK u \in Users : status' = "open" /\ job[t].queue = {u}
          BY <4>1, <2>5, <3>7 DEF Current, PaidRead
        <4> QED
          BY <3>1, <4>2, <4>3 DEF Current
      <3>8. CASE CloseRead(t)
        <4>1. /\ members' = members
              /\ job'[t] = Idle \/ (members # {} /\ job'[t] = Job("close", {}, "idle"))
          BY <3>8, <3>a DEF CloseRead, Ready, Rows
        <4>2. job'[t].pc = "idle" \/ (members' # {} /\ job'[t].pc = "close")
          BY <4>1 DEF Job, Idle
        <4> QED
          BY <3>1, <4>2 DEF Current
      <3> QED
        BY <1>2, <3>4, <3>5, <3>6, <3>7, <3>8 DEF TaskStep
    <2> QED
      BY <2>3, <2>4, <2>5
  <1> QED
    BY <1>1, <1>2

(* What it writes is an entry of the book. *)
LEMMA StepIsEntry ==
    ASSUME IInv, Known, Current, (\E t \in Tasks : TaskStep(t)) \/ Break
    PROVE  [Book!Next]_(Book!vars)
  <1>0. UNCHANGED contested
    BY DEF Break, TaskStep, Publish, Insert, Delete, RecalculateRead,
           RecalculateWrite, PaidRead, PaidWrite, CloseRead, CloseWrite, ghosts
  <1>1. CASE contested
    BY <1>0, <1>1 DEF Book!Next
  <1>2. CASE Break
    BY <1>0, <1>2 DEF Break, Rows, Book!vars
  <1>3. ASSUME NEW t \in Tasks, TaskStep(t), ~contested
        PROVE  [Book!Next]_(Book!vars)
    <2>a. job[t] \in Jobs /\ paid \subseteq members
      BY DEF IInv, TypeOK
    <2>b. /\ job[t].pc \in {"insert", "delete"} => status = "open"
          /\ job[t].pc = "paid" => status = "open" /\ \E u \in Users : job[t].queue = {u}
          /\ job[t].pc = "close" => status # "none" /\ members \subseteq paid /\ members # {}
      BY <1>3 DEF IInv, BusyOpen, Current, Known
    <2>1. CASE Insert(t)
      <3>1. PICK u \in job[t].queue : members' = members \union {u} /\ paid' = paid \ {u}
        BY <2>1 DEF Insert
      <3>2. job[t].pc = "insert" /\ u \in Users /\ UNCHANGED status
        BY <2>1, <2>a DEF Insert, Jobs
      <3>3. Book!Join(u)
        BY <2>b, <3>1, <3>2 DEF Book!Join
      <3> QED
        BY <1>0, <3>2, <3>3 DEF Book!Entry, Book!Next
    <2>2. CASE Delete(t)
      <3>1. PICK u \in job[t].queue : members' = members \ {u} /\ paid' = paid \ {u}
        BY <2>2 DEF Delete
      <3>2. job[t].pc = "delete" /\ u \in Users /\ UNCHANGED status
        BY <2>2, <2>a DEF Delete, Jobs
      <3>3. Book!Depart(u)
        BY <2>b, <3>1, <3>2 DEF Book!Depart
      <3> QED
        BY <1>0, <3>2, <3>3 DEF Book!Entry, Book!Next
    <2>3. CASE PaidWrite(t)
      <3>1. PICK u \in Users : job[t].queue = {u}
        BY <2>3, <2>b DEF PaidWrite
      <3>2. /\ status = "open" /\ UNCHANGED <<status, members>>
            /\ paid' = paid \union ({u} \intersect members)
        BY <2>3, <2>b, <3>1 DEF PaidWrite, PaidRows
      <3>3. CASE u \in members \ paid
        <4>1. Book!Settle(u)
          BY <3>2, <3>3 DEF Book!Settle
        <4> QED
          BY <1>0, <4>1 DEF Book!Entry, Book!Next
      <3>4. CASE u \notin members \ paid
        <4>1. paid' = paid
          BY <2>a, <3>2, <3>4
        <4> QED
          BY <1>0, <3>2, <4>1 DEF Book!vars
      <3> QED
        BY <3>3, <3>4
    <2>4. CASE CloseWrite(t)
      <3>1. /\ job[t].pc = "close" /\ status' = "closed" /\ UNCHANGED <<members, paid>>
        BY <2>4 DEF CloseWrite, Rows
      <3>2. CASE status = "open"
        <4>1. Book!Close
          BY <2>a, <2>b, <3>1, <3>2 DEF Book!Close
        <4> QED
          BY <1>0, <4>1 DEF Book!Entry, Book!Next
      <3>3. CASE status = "closed"
        BY <1>0, <3>1, <3>3 DEF Book!vars
      <3> QED
        BY <2>b, <3>1, <3>2, <3>3 DEF IInv, TypeOK
    <2>5. CASE \/ Publish(t) \/ RecalculateRead(t) \/ RecalculateWrite(t)
               \/ PaidRead(t) \/ CloseRead(t)
      BY <1>0, <2>5 DEF Publish, RecalculateRead, RecalculateWrite, PaidRead, CloseRead, Rows,
                        Book!vars
    <2> QED
      BY <1>3, <2>1, <2>2, <2>3, <2>4, <2>5 DEF TaskStep
  <1> QED
    BY <1>1, <1>2, <1>3

(* As long as no handler runs while another is about to close the bill,      *)
(* wherever handlers overlap or break off, the bill is a ledger: a closed    *)
(* one is final, and was closed on no debt.                                  *)
THEOREM LedgerIsImplemented == Spec => ImplementsLedger
  <1>1. Init => Known /\ Current /\ Book!Init
    BY DEF Init, Known, Current, Idle, Job, Book!Init
  <1>2. IInv /\ Known /\ Current /\ [Next]_vars
          => Known' /\ Current' /\ [Book!Next]_(Book!vars)
    <2>1. UNCHANGED vars /\ Known /\ Current => Known' /\ Current' /\ UNCHANGED Book!vars
      BY DEF vars, ghosts, Known, Current, Book!vars
    <2> QED
      BY <2>1, BeginIsCurrent, StepIsCurrent, StepIsEntry DEF Next
  <1> QED
    BY <1>1, <1>2, InvariantHolds, PTL DEF Spec, ImplementsLedger, Book!Spec

=============================================================================
