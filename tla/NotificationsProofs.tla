-------------------------- MODULE NotificationsProofs --------------------------
(***************************************************************************)
(* Proofs about Notifications, for any number of messages, any batch size, *)
(* any number of faults and failing statements.                           *)
(*                                                                         *)
(* That no message is delivered twice is not inductive by itself: a copy   *)
(* is sent by a call that has not returned, and then the message has no    *)
(* row, or by the one job that holds its row, and then the row is          *)
(* "sending" and the copy is the first.  OnlyOneSender says so.            *)
(*                                                                         *)
(* The second half shows that Notifications implements Mailbox.  The       *)
(* mapping needs one more invariant, Numbered: a row is stamped above all  *)
(* stamps given before, so that the oldest rows are the front of the box.  *)
(***************************************************************************)
EXTENDS Notifications, FiniteSetTheorems, TLAPS

(* Who may still send n: the call that has not returned, the jobs that will   *)
(* find the row pending, or the job that holds it and has not come to it yet. *)
CallMaySend == \A n \in Notes : call[n] # "returned" => status[n] = "none" /\ got[n] = 0
RowMaySend == \A n \in Notes : status[n] = "pending" => got[n] = 0
JobMaySend ==
    \A j \in Jobs : \A n \in flush[j].claimed :
        flush[j].pc = "send" \/ flush[j].at # n => got[n] = 0
JobShape ==
    \A j \in Jobs :
        /\ flush[j].pc \in {"idle", "claim"} => flush[j].claimed = {}
        /\ flush[j].pc \in {"mark_sent", "mark_failed"} => flush[j].at \in flush[j].claimed
        /\ flush[j].pc = "mark_sent" => got[flush[j].at] = 1

OnlyOneSender == CallMaySend /\ RowMaySend /\ JobMaySend /\ JobShape

IInv == TypeOK /\ OnlyOneSender /\ ClaimsAreExclusive /\ SentWasDelivered /\ DeliveredOnce

USE DEF Modes, Kinds

-----------------------------------------------------------------------------
(* The hour of the next tick is an hour of the day. *)
LEMMA NextHourType == ASSUME hour \in 0..(Hours - 1) PROVE NextHour \in 0..(Hours - 1)
  BY NotificationsAssumption, SMT DEF NextHour

(* The stamps given so far can be counted. *)
LEMMA StampedAreCounted ==
    ASSUME TypeOK
    PROVE  Cardinality({m \in Notes : created[m] # 0}) \in Nat
  <1>1. IsFiniteSet(Notes)
    BY NotificationsAssumption, FS_Interval DEF Notes
  <1>2. IsFiniteSet({m \in Notes : created[m] # 0})
    BY <1>1, FS_Subset
  <1> QED
    BY <1>2, FS_CardinalityType

(* Every step of a call of send_private_dm preserves the invariant. *)
LEMMA CallStepsPreserve ==
    ASSUME IInv, NEW n \in Notes,
           CallStep(n) \/ \E u \in Users, kind \in Kinds : SendBegin(n, u, kind)
    PROVE  IInv'
  <1> USE DEF IInv, TypeOK, OnlyOneSender, CallMaySend, RowMaySend, JobMaySend, JobShape,
              ClaimsAreExclusive, SentWasDelivered, DeliveredOnce
  <1>1. CASE \E u \in Users, kind \in Kinds : SendBegin(n, u, kind)
    BY <1>1 DEF SendBegin
  <1>2. CASE SendClock(n)
    BY <1>2 DEF SendClock
  <1>3. CASE SendStamp(n)
    BY <1>3, StampedAreCounted DEF SendStamp
  <1>4. CASE SendEnqueue(n)
    BY <1>4 DEF SendEnqueue
  <1>5. CASE SendNow(n)
    BY <1>5 DEF SendNow, Request
  <1> QED
    BY <1>1, <1>2, <1>3, <1>4, <1>5 DEF CallStep

(* Every step of a flush job preserves the invariant. *)
LEMMA JobStepsPreserve ==
    ASSUME IInv, NEW j \in Jobs, FlushTick(j) \/ JobStep(j)
    PROVE  IInv'
  <1> USE DEF IInv, TypeOK, OnlyOneSender, CallMaySend, RowMaySend, JobMaySend, JobShape,
              ClaimsAreExclusive, SentWasDelivered, DeliveredOnce
  <1>1. CASE FlushTick(j)
    BY <1>1 DEF FlushTick
  <1>2. CASE Claim(j)
    BY <1>2 DEF Claim, ClaimedRows, Oldest, Pending, Idle
  <1>3. CASE FlushSend(j)
    <2>1. PICK n \in flush[j].claimed, answer \in {"ok", "error"} :
            /\ Request(n, answer)
            /\ flush' = [flush EXCEPT ![j] =
                 [pc |-> IF answer = "ok" THEN "mark_sent" ELSE "mark_failed",
                  claimed |-> flush[j].claimed, at |-> n]]
      BY <1>3 DEF FlushSend
    <2>2. flush[j].pc = "send" /\ n \in Notes /\ got[n] = 0 /\ status[n] = "sending"
          /\ UNCHANGED <<hour, mode, call, status, created, faults>>
      BY <1>3 DEF FlushSend
    <2>3. PICK c \in {0, 1} : got' = [got EXCEPT ![n] = c] /\ (answer = "ok" => c = 1)
      BY <2>1, <2>2 DEF Request
    <2>4. TypeOK'
      BY <2>1, <2>2, <2>3
    <2>5. CallMaySend' /\ RowMaySend' /\ SentWasDelivered' /\ DeliveredOnce'
      BY <2>2, <2>3
    <2>6. JobMaySend' /\ ClaimsAreExclusive'
      BY <2>1, <2>2, <2>3
    <2>7. JobShape'
      BY <2>1, <2>2, <2>3
    <2> QED
      BY <2>4, <2>5, <2>6, <2>7
  <1>4. CASE FlushMark(j)
    BY <1>4 DEF FlushMark, MarkAs, Advance, Idle
  <1> QED
    BY <1>1, <1>2, <1>3, <1>4 DEF JobStep

(* The other steps: the mode, the cleanup, the clock, failures. *)
LEMMA OtherStepsPreserve ==
    ASSUME IInv,
           \/ \E u \in Users, m \in Modes : SetMode(u, m)
           \/ Cleanup \/ ClockTick \/ DatabaseFails \/ Crash
           \/ UNCHANGED vars
    PROVE  IInv'
  <1> USE DEF IInv, TypeOK, OnlyOneSender, CallMaySend, RowMaySend, JobMaySend, JobShape,
              ClaimsAreExclusive, SentWasDelivered, DeliveredOnce
  <1>1. CASE \E u \in Users, m \in Modes : SetMode(u, m)
    BY <1>1 DEF SetMode
  <1>2. CASE Cleanup
    BY <1>2 DEF Cleanup
  <1>3. CASE ClockTick
    BY <1>3, NextHourType DEF ClockTick
  <1>4. CASE DatabaseFails
    <2>1. faults' \in 0..MaxFaults
      BY <1>4, NotificationsAssumption DEF DatabaseFails
    <2>2. CASE \E n \in Notes : /\ call[n] \in {"new", "enqueue", "insert"}
                              /\ call' = [call EXCEPT ![n] = "returned"]
                              /\ UNCHANGED flush
      BY <1>4, <2>1, <2>2 DEF DatabaseFails
    <2>3. CASE \E j \in Jobs : /\ flush[j].pc = "mark_sent"
                             /\ flush' = [flush EXCEPT ![j].pc = "mark_failed"]
                             /\ UNCHANGED call
      BY <1>4, <2>1, <2>3 DEF DatabaseFails
    <2>4. CASE \E j \in Jobs : /\ flush[j].pc \in {"claim", "mark_failed"}
                             /\ flush' = [flush EXCEPT ![j] = Idle]
                             /\ UNCHANGED call
      BY <1>4, <2>1, <2>4 DEF DatabaseFails, Idle
    <2> QED
      BY <1>4, <2>2, <2>3, <2>4 DEF DatabaseFails
  <1>5. CASE Crash
    BY <1>5, NotificationsAssumption DEF Crash, Idle
  <1>6. CASE UNCHANGED vars
    BY <1>6 DEF vars
  <1> QED
    BY <1>1, <1>2, <1>3, <1>4, <1>5, <1>6

-----------------------------------------------------------------------------
(* The invariant holds initially and every step keeps it. *)
THEOREM InvariantHolds == Spec => []IInv
  <1>1. Init => IInv
    BY NotificationsAssumption
       DEF Init, IInv, TypeOK, OnlyOneSender, CallMaySend, RowMaySend, JobMaySend, JobShape,
           ClaimsAreExclusive, SentWasDelivered, DeliveredOnce, Idle
  <1>2. IInv /\ [Next]_vars => IInv'
    BY CallStepsPreserve, JobStepsPreserve, OtherStepsPreserve DEF Next
  <1> QED
    BY <1>1, <1>2, PTL DEF Spec

(* The variables of Notifications keep their types. *)
THEOREM TypeCorrect == Spec => []TypeOK
  BY InvariantHolds, PTL DEF IInv

(* send_private_dm and the two flush jobs never deliver a message twice,     *)
(* whatever faults and whichever statements fail.                           *)
THEOREM AtMostOneDelivery == Spec => []DeliveredOnce
  BY InvariantHolds, PTL DEF IInv

(* claim_pending_notifications gives a row to one job only. *)
THEOREM ExclusiveClaims == Spec => []ClaimsAreExclusive
  BY InvariantHolds, PTL DEF IInv

(* mark_pending_notification_sent tells the truth. *)
THEOREM SentIsDelivered == Spec => []SentWasDelivered
  BY InvariantHolds, PTL DEF IInv

-----------------------------------------------------------------------------
(* How many hours the clock takes from a to b. *)
HoursFrom(a, b) == IF a <= b THEN b - a ELSE b - a + Hours

(* is_quiet_hours, with its branch for an interval that crosses midnight, is *)
(* the stretch of the clock from QUIET_HOURS_START to QUIET_HOURS_END, or    *)
(* the whole day when the two are equal; so the job of QUIET_HOURS_END is    *)
(* never turned away by flush_pending_notifications, except in that case.    *)
THEOREM QuietHoursAreAnInterval ==
    ASSUME NEW h \in 0..(Hours - 1)
    PROVE  /\ IsQuiet(h) <=> \/ QuietStart = QuietEnd
                             \/ HoursFrom(QuietStart, h) < HoursFrom(QuietStart, QuietEnd)
           /\ QuietStart # QuietEnd /\ hour = QuietEnd => MayFlush
  <1>1. QuietStart \in Int /\ QuietEnd \in Int /\ Hours \in Int /\ h \in Int
        /\ 0 <= h /\ h < Hours /\ 0 <= QuietStart /\ QuietStart < Hours
        /\ 0 <= QuietEnd /\ QuietEnd < Hours
    BY NotificationsAssumption
  <1> QED
    BY <1>1 DEF IsQuiet, HoursFrom, MayFlush

(* No job is at work, no call is about to send. *)
Silent ==
    /\ \A n \in Notes : got[n] = 0 /\ call[n] # "send"
    /\ \A j \in Jobs : flush[j].pc = "idle"

(* Quiet hours that end where they begin, which config.py admits, last all   *)
(* day: every message that is wanted is queued, flush_pending_notifications  *)
(* never claims one, and nothing is ever delivered.                          *)
THEOREM QuietAllDayIsSilence ==
    ASSUME QuietStart = QuietEnd
    PROVE  Spec => [](\A n \in Notes : got[n] = 0)
  <1>1. Init => Silent
    BY DEF Init, Silent, Idle
  <1>2. TypeOK /\ Silent /\ [Next]_vars => Silent'
    <2> SUFFICES ASSUME TypeOK, Silent, [Next]_vars PROVE Silent'
      OBVIOUS
    <2>1. IsQuiet(hour)
      BY QuietHoursAreAnInterval DEF TypeOK
    <2>2. \A n \in Notes : got[n] = 0 /\ call[n] # "send"
      BY DEF Silent
    <2>3. \A j \in Jobs : flush[j].pc = "idle"
      BY DEF Silent
    <2>4. CASE UNCHANGED flush /\ UNCHANGED got /\ \A n \in Notes : call'[n] # "send"
      BY <2>2, <2>3, <2>4 DEF Silent
    <2>5. ASSUME NEW n \in Notes,
                 CallStep(n) \/ \E u \in Users, kind \in Kinds : SendBegin(n, u, kind)
          PROVE  UNCHANGED flush /\ UNCHANGED got /\ \A m \in Notes : call'[m] # "send"
      BY <2>1, <2>2, <2>5 DEF CallStep, SendBegin, SendClock, SendStamp, SendEnqueue, SendNow, TypeOK
    <2>6. ~ \E j \in Jobs : FlushTick(j) \/ JobStep(j)
      BY <2>1, <2>3 DEF FlushTick, MayFlush, JobStep, Claim, FlushSend, FlushMark
    <2>7. CASE \E u \in Users, m \in Modes : SetMode(u, m)
      BY <2>2, <2>4, <2>7 DEF SetMode
    <2>8. CASE Cleanup \/ ClockTick \/ UNCHANGED vars
      BY <2>2, <2>4, <2>8 DEF Cleanup, ClockTick, vars
    <2>9. CASE DatabaseFails
      BY <2>2, <2>3, <2>4, <2>9 DEF DatabaseFails, TypeOK
    <2>10. CASE Crash
      BY <2>2, <2>10 DEF Crash, Idle, Silent
    <2> QED
      BY <2>4, <2>5, <2>6, <2>7, <2>8, <2>9, <2>10 DEF Next
  <1>3. Silent => \A n \in Notes : got[n] = 0
    BY DEF Silent
  <1> QED
    BY <1>1, <1>2, <1>3, TypeCorrect, PTL DEF Spec

-----------------------------------------------------------------------------
(* The messages with a stamp: their row is there, was there or is to come. *)
Stamped == {m \in Notes : created[m] # 0}

(* The stamps are given in turn, every one once, before the row is inserted. *)
Numbered ==
    /\ \A n \in Notes : created[n] <= Cardinality(Stamped)
    /\ \A n \in Notes : call[n] \in {"new", "clock", "enqueue", "send"} => created[n] = 0
    /\ \A n \in Notes : call[n] = "insert" => created[n] # 0
    /\ \A n \in Notes : status[n] = "pending" => created[n] # 0
    /\ \A m, n \in Stamped : created[m] = created[n] => m = n

(* There are finitely many messages, hence rows. *)
LEMMA StampedFinite ==
    /\ IsFiniteSet(Notes) /\ IsFiniteSet(Stamped)
    /\ Cardinality(Stamped) \in Nat
  <1>1. IsFiniteSet(Notes)
    BY NotificationsAssumption, FS_Interval DEF Notes
  <1> QED
    BY <1>1, FS_Subset, FS_CardinalityType DEF Stamped

(* Only SendStamp gives a stamp, above all others. *)
LEMMA NumberedNext == IInv /\ Numbered /\ [Next]_vars => Numbered'
  <1> SUFFICES ASSUME IInv, Numbered, [Next]_vars PROVE Numbered'
    OBVIOUS
  <1>a. TypeOK /\ CallMaySend /\ RowMaySend
    BY DEF IInv, OnlyOneSender
  <1>1. ASSUME NEW n \in Notes, SendStamp(n)
        PROVE  Numbered'
    <2>1. /\ created \in [Notes -> Nat] /\ created[n] = 0 /\ n \notin Stamped
          /\ created' = [created EXCEPT ![n] = 1 + Cardinality(Stamped)]
          /\ call' = [call EXCEPT ![n] = "insert"] /\ UNCHANGED status
          /\ call \in [Notes -> {"new", "clock", "enqueue", "insert", "send", "returned"}]
      BY <1>1, <1>a DEF SendStamp, TypeOK, Numbered, Stamped
    <2>2. Cardinality(Stamped) \in Nat
      BY StampedFinite
    <2>3. Stamped' = Stamped \union {n}
      BY <2>1, <2>2 DEF Stamped
    <2>4. Cardinality(Stamped') = Cardinality(Stamped) + 1
      BY <2>1, <2>3, StampedFinite, FS_AddElement
    <2>5. \A m \in Notes : created'[m] <= Cardinality(Stamped')
      BY <2>1, <2>2, <2>4 DEF Numbered
    <2>6. \A m, k \in Stamped' : created'[m] = created'[k] => m = k
      BY <2>1, <2>2, <2>3 DEF Numbered, Stamped
    <2> QED
      BY <2>1, <2>2, <2>5, <2>6 DEF Numbered
  <1>2. ASSUME UNCHANGED created,
               \A n \in Notes : created[n] = 0 =>
                   /\ call'[n] # "insert" /\ status'[n] # "pending",
               \A n \in Notes : created[n] # 0 =>
                   call'[n] \notin {"new", "clock", "enqueue", "send"}
        PROVE  Numbered'
    BY <1>2 DEF Numbered, Stamped
  <1>3. ASSUME NEW n \in Notes, SendEnqueue(n)
        PROVE  Numbered'
    <2>1. created[n] # 0 /\ UNCHANGED created
          /\ call' = [call EXCEPT ![n] = "returned"]
          /\ status' = [status EXCEPT ![n] = "pending"]
      BY <1>3 DEF SendEnqueue, Numbered
    <2> QED
      BY <2>1, <1>2, <1>a DEF Numbered, TypeOK
  <1>4. ASSUME ~ \E n \in Notes : SendStamp(n) \/ SendEnqueue(n)
        PROVE  /\ UNCHANGED created
               /\ \A n \in Notes : call'[n] = call[n] \/ call'[n] = "returned"
                     \/ (call[n] \in {"new", "clock"} /\ call'[n] # "insert")
               /\ \A n \in Notes : status'[n] = "pending" => status[n] = "pending"
    BY <1>4, <1>a
       DEF TypeOK, Next, CallStep, SendClock, SendNow, SendBegin, FlushTick, JobStep, Claim, FlushSend,
           FlushMark, SetMode, Cleanup, ClockTick, DatabaseFails, Crash, vars, ClaimedRows, MarkAs
  <1>5. CASE ~ \E n \in Notes : SendStamp(n) \/ SendEnqueue(n)
    <2>1. \A n \in Notes : created[n] = 0 => call'[n] # "insert" /\ status'[n] # "pending"
      BY <1>4, <1>5 DEF Numbered
    <2>2. \A n \in Notes : created[n] # 0 => call'[n] \notin {"new", "clock", "enqueue", "send"}
      BY <1>4, <1>5 DEF Numbered
    <2> QED
      BY <1>2, <1>4, <1>5, <2>1, <2>2
  <1> QED
    BY <1>1, <1>3, <1>5

(* ORDER BY created_at LIMIT: the oldest rows, no more of them than asked. *)
LEMMA OldestAre ==
    ASSUME TypeOK, Numbered, NEW k \in Nat
    PROVE  /\ Oldest(k) \subseteq Pending
           /\ \A n \in Oldest(k), m \in Pending \ Oldest(k) : created[n] < created[m]
           /\ Cardinality(Oldest(k)) <= k
  <1> DEFINE Before(n) == {m \in Pending : created[m] < created[n]}
             rank == [n \in Oldest(k) |-> Cardinality(Before(n))]
  <1>1. Pending \subseteq Stamped /\ Pending \subseteq Notes
        /\ \A n \in Notes : created[n] \in Nat
    BY DEF Pending, Stamped, Numbered, TypeOK
  <1>2. \A n \in Pending : IsFiniteSet(Before(n)) /\ Cardinality(Before(n)) \in Nat
    BY <1>1, StampedFinite, FS_Subset, FS_CardinalityType
  <1>3. ASSUME NEW m \in Pending, NEW n \in Pending, created[m] <= created[n]
        PROVE  Cardinality(Before(m)) <= Cardinality(Before(n))
    <2>1. Before(m) \subseteq Before(n)
      BY <1>1, <1>3
    <2> QED
      BY <2>1, <1>2, FS_Subset
  <1>4. ASSUME NEW m \in Pending, NEW n \in Pending, created[m] < created[n]
        PROVE  Cardinality(Before(m)) < Cardinality(Before(n))
    <2>1. Before(m) \subseteq Before(n) /\ m \in Before(n) /\ m \notin Before(m)
      BY <1>1, <1>4
    <2> QED
      BY <2>1, <1>2, FS_Subset
  <1>5. Oldest(k) = {n \in Pending : Cardinality(Before(n)) < k}
    BY DEF Oldest
  <1> HIDE DEF Before
  <1>6. ASSUME NEW n \in Oldest(k), NEW m \in Pending \ Oldest(k)
        PROVE  created[n] < created[m]
    BY <1>1, <1>2, <1>3, <1>5
  <1>7. Cardinality(Oldest(k)) <= k
    <2>1. rank \in Injection(Oldest(k), 0..(k - 1))
      <3>1. \A n \in Oldest(k) : rank[n] \in 0..(k - 1)
        BY <1>2, <1>5
      <3>2. ASSUME NEW m \in Oldest(k), NEW n \in Oldest(k), rank[m] = rank[n]
            PROVE  m = n
        BY <3>2, <1>1, <1>2, <1>4, <1>5 DEF Numbered
      <3> QED
        BY <3>1, <3>2 DEF Injection, IsInjective
    <2>2. IsFiniteSet(0..(k - 1)) /\ Cardinality(0..(k - 1)) = k
      BY FS_Interval
    <2> HIDE DEF rank
    <2> QED
      BY <2>1, <2>2, FS_Injection
  <1> QED
    BY <1>5, <1>6, <1>7

-----------------------------------------------------------------------------
(* Where the mailbox has the message n. *)
Place(n) == IF call[n] = "new" THEN "unsent"
            ELSE IF call[n] # "returned" THEN "accepted"
            ELSE IF status[n] = "pending" THEN "box"
            ELSE IF InHand(n) THEN "hand" ELSE "gone"
Places == [n \in Notes |-> Place(n)]

(* The box counts as the table does. *)
LEMMA SameCount ==
    ASSUME NEW S
    PROVE  MB!Cardinality(S) = Cardinality(S)
  BY DEF Cardinality, MB!Cardinality

(* A step of send_private_dm accepts, keeps, gives or loses its message. *)
LEMMA CallStepMaps ==
    ASSUME IInv, Numbered, NEW n \in Notes,
           CallStep(n) \/ \E u \in Users, kind \in Kinds : SendBegin(n, u, kind)
    PROVE  [MB!Next]_(MB!vars)
  <1> USE DEF Places
  <1>a. /\ call \in [Notes -> {"new", "clock", "enqueue", "insert", "send", "returned"}]
        /\ status \in [Notes -> {"none", "pending", "sending", "sent", "failed"}]
        /\ got \in [Notes -> Nat] /\ created \in [Notes -> Nat]
        /\ \A m \in Notes : call[m] # "returned" => status[m] = "none" /\ ~InHand(m)
    BY DEF IInv, TypeOK, OnlyOneSender, CallMaySend, ClaimsAreExclusive, InHand
  <1>b. UNCHANGED flush => \A m \in Notes : InHand(m)' = InHand(m)
    BY DEF InHand
  <1>c. ASSUME NEW p, Place(n)' = p, UNCHANGED flush,
               \A m \in Notes \ {n} : call'[m] = call[m] /\ status'[m] = status[m]
        PROVE  MB!Move({n}, p)
    <2>1. \A m \in Notes \ {n} : Place(m)' = Place(m)
      BY <1>b, <1>c DEF Place
    <2> QED
      BY <2>1, <1>c DEF MB!Move, Place
  <1>1. CASE \E u \in Users, kind \in Kinds : SendBegin(n, u, kind)
    <2>1. /\ Place(n) = "unsent" /\ UNCHANGED <<status, created, flush, got>>
          /\ call'[n] \in {"clock", "returned"}
          /\ \A m \in Notes \ {n} : call'[m] = call[m]
      BY <1>1, <1>a DEF SendBegin, Place
    <2>2. CASE call'[n] = "clock"
      <3>1. MB!Move({n}, "accepted")
        BY <2>1, <2>2, <1>c DEF Place
      <3> QED
        BY <2>1, <3>1 DEF MB!Accept, MB!Next, Place
    <2>3. CASE call'[n] = "returned"
      <3>1. MB!Move({n}, "gone")
        BY <2>1, <2>3, <1>a, <1>b, <1>c, <1>1 DEF Place, SendBegin
      <3>2. MB!Lose({n})
        BY <2>1, <3>1 DEF MB!Lose, Place
      <3> QED
        BY <3>2 DEF MB!Next
    <2> QED
      BY <2>1, <2>2, <2>3
  <1>2. CASE SendClock(n)
    <2>1. \A m \in Notes : Place(m)' = Place(m)
      BY <1>2, <1>a, <1>b DEF SendClock, Place
    <2> QED
      BY <2>1, <1>2 DEF SendClock, MB!vars, Place
  <1>3. CASE SendStamp(n)
    <2>1. /\ UNCHANGED <<status, flush, got>>
          /\ call[n] = "enqueue" /\ call' = [call EXCEPT ![n] = "insert"]
          /\ created' = [created EXCEPT ![n] = 1 + Cardinality(Stamped)]
      BY <1>3 DEF SendStamp, Stamped
    <2>2. created[n] = 0
      BY <2>1 DEF Numbered
    <2>3. /\ created' \in [Notes -> Nat]
          /\ \A m \in Notes \ {n} : created'[m] = created[m] /\ created'[m] < created'[n]
      BY <2>1, <1>a, StampedFinite DEF Numbered
    <2>4. \A m \in Notes : Place(m)' = Place(m)
      BY <2>1, <1>a, <1>b DEF Place
    <2>5. MB!Date(n)
      BY <2>1, <2>2, <2>3, <2>4 DEF MB!Date, Place
    <2> QED
      BY <2>5 DEF MB!Next
  <1>4. CASE SendEnqueue(n)
    <2>1. Place(n) = "accepted" /\ MB!Move({n}, "box")
      BY <1>4, <1>a, <1>c DEF SendEnqueue, Place
    <2>2. created[n] # 0
      BY <1>4 DEF SendEnqueue, Numbered
    <2>3. MB!Keep(n)
      BY <2>1, <2>2, <1>4 DEF SendEnqueue, MB!Keep, Place
    <2> QED
      BY <2>3 DEF MB!Next
  <1>5. CASE SendNow(n)
    <2>1. /\ Place(n) = "accepted" /\ MB!Move({n}, "gone") /\ UNCHANGED created
          /\ \/ got' = [got EXCEPT ![n] = @ + 1]
             \/ got' = got
      <3>1. Place(n) = "accepted" /\ UNCHANGED <<status, created, flush>>
            /\ call' = [call EXCEPT ![n] = "returned"]
        BY <1>5, <1>a DEF SendNow, Place
      <3>2. Place(n)' = "gone"
        BY <3>1, <1>a, <1>b, <1>5 DEF Place, SendNow
      <3>3. MB!Move({n}, "gone")
        BY <3>1, <3>2, <1>a, <1>c
      <3> QED
        BY <3>1, <3>3, <1>a, <1>5 DEF SendNow, Request
    <2>2. MB!Give(n) \/ MB!Lose({n})
      BY <2>1 DEF MB!Give, MB!Lose, Place
    <2> QED
      BY <2>2 DEF MB!Next
  <1> QED
    BY <1>1, <1>2, <1>3, <1>4, <1>5 DEF CallStep

(* A step of a job takes a batch out of the box, gives or loses a message it *)
(* has in hand, or is bookkeeping the mailbox does not see.                  *)
LEMMA JobStepMaps ==
    ASSUME IInv, Numbered, NEW j \in Jobs, FlushTick(j) \/ JobStep(j)
    PROVE  [MB!Next]_(MB!vars)
  <1> USE DEF Places
  <1>a. /\ status \in [Notes -> {"none", "pending", "sending", "sent", "failed"}]
        /\ got \in [Notes -> Nat]
        /\ flush \in [Jobs -> [pc : {"idle", "claim", "send", "mark_sent", "mark_failed"},
                               claimed : SUBSET Notes, at : Notes \union {0}]]
        /\ \A i \in Jobs, n \in Notes :
             n \in flush[i].claimed => status[n] = "sending" /\ call[n] = "returned"
        /\ \A i \in Jobs : flush[i].pc \in {"idle", "claim"} => flush[i].claimed = {}
        /\ \A i \in Jobs \ {j} : flush[i].claimed \intersect flush[j].claimed = {}
    BY DEF IInv, TypeOK, OnlyOneSender, CallMaySend, ClaimsAreExclusive, JobShape
  <1>b. ASSUME \A n \in Notes : Place(n)' = Place(n), UNCHANGED <<created, got>>
        PROVE  UNCHANGED MB!vars
    BY <1>b DEF MB!vars, Place
  <1>c. ASSUME NEW S \in SUBSET Notes, NEW p,
               \A n \in Notes : Place(n)' = IF n \in S THEN p ELSE Place(n)
        PROVE  MB!Move(S, p)
    BY <1>c DEF MB!Move, Place
  <1>1. CASE FlushTick(j)
    <2>1. \A n \in Notes : InHand(n)' = InHand(n)
      BY <1>1, <1>a DEF FlushTick, InHand
    <2>2. \A n \in Notes : Place(n)' = Place(n)
      BY <1>1, <2>1 DEF FlushTick, Place
    <2> QED
      BY <1>1, <2>2, <1>b DEF FlushTick
  <1>2. CASE Claim(j)
    <2>0. Oldest(Batch) \in SUBSET Notes
      BY DEF Oldest, Pending
    <2>a. PICK batch \in SUBSET Notes : batch = Oldest(Batch)
      BY <2>0
    <2>1. /\ batch \subseteq Pending /\ Cardinality(batch) <= Batch
          /\ \A n \in batch, m \in Pending \ batch : created[n] < created[m]
      BY <2>a, OldestAre, NotificationsAssumption DEF IInv
    <2>2. /\ flush[j].pc = "claim" /\ UNCHANGED <<call, created, got>>
          /\ status' = [n \in Notes |-> IF n \in batch THEN "sending" ELSE status[n]]
          /\ flush' = [flush EXCEPT ![j] = IF batch = {} THEN Idle
                              ELSE [pc |-> "send", claimed |-> batch, at |-> 0]]
      BY <1>2, <2>a DEF Claim, ClaimedRows
    <2>3. \A n \in Pending : Place(n) = "box"
      BY <1>a DEF Pending, Place, IInv, OnlyOneSender, CallMaySend
    <2>4. \A n \in Notes : Place(n) = "box" => n \in Pending
      BY DEF Place, Pending
    <2>5. \A n \in Notes : InHand(n)' <=> InHand(n) \/ n \in batch
      BY <2>2, <1>a DEF InHand, Idle
    <2>6. \A n \in Notes : Place(n)' = IF n \in batch THEN "hand" ELSE Place(n)
      BY <2>1, <2>2, <2>3, <2>5 DEF Place, Pending
    <2>7. batch \subseteq Notes /\ MB!Box = Pending
      BY <2>1, <2>3, <2>4 DEF Pending, MB!Box, Place
    <2>8. MB!Move(batch, "hand")
      BY <2>6, <2>7, <1>c
    <2>9. MB!Take(batch)
      BY <2>1, <2>2, <2>7, <2>8, SameCount DEF MB!Take
    <2> QED
      BY <2>7, <2>9 DEF MB!Next
  <1>3. CASE FlushSend(j)
    <2>1. PICK n \in flush[j].claimed, answer \in {"ok", "error"} :
            /\ Request(n, answer)
            /\ flush' = [flush EXCEPT ![j] =
                 [pc |-> IF answer = "ok" THEN "mark_sent" ELSE "mark_failed",
                  claimed |-> flush[j].claimed, at |-> n]]
      BY <1>3 DEF FlushSend
    <2>2. flush[j].pc = "send" /\ n \in Notes /\ UNCHANGED <<call, status, created>>
      BY <1>3, <1>a DEF FlushSend
    <2>3. \A m \in Notes : InHand(m)' <=> InHand(m) /\ m # n
      BY <2>1, <2>2, <1>a DEF InHand
    <2>4. InHand(n)
      BY <2>1, <2>2 DEF InHand
    <2>5. Place(n) = "hand" /\ \A m \in Notes : Place(m)' = IF m \in {n} THEN "gone" ELSE Place(m)
      BY <2>1, <2>2, <2>3, <2>4, <1>a DEF Place
    <2>6. MB!Move({n}, "gone")
      BY <2>2, <2>5, <1>c
    <2>7. got' = [got EXCEPT ![n] = @ + 1] \/ got' = got
      BY <2>1, <2>2, <1>a DEF Request
    <2>8. MB!Give(n) \/ MB!Lose({n})
      BY <2>2, <2>5, <2>6, <2>7 DEF MB!Give, MB!Lose, Place
    <2> QED
      BY <2>2, <2>8 DEF MB!Next
  <1>4. CASE FlushMark(j)
    <2>1. /\ flush[j].pc \in {"mark_sent", "mark_failed"} /\ UNCHANGED <<call, created, got>>
          /\ flush[j].at \in flush[j].claimed
          /\ \E s \in {"sent", "failed"} : status' = [status EXCEPT ![flush[j].at] = s]
      BY <1>4 DEF FlushMark, MarkAs, IInv, OnlyOneSender, JobShape
    <2>2. /\ flush'[j] = IF flush[j].claimed \ {flush[j].at} = {} THEN Idle
                         ELSE [pc |-> "send", claimed |-> flush[j].claimed \ {flush[j].at}, at |-> 0]
          /\ \A i \in Jobs \ {j} : flush'[i] = flush[i]
      BY <1>4, <1>a DEF FlushMark, Advance
    <2>3. \A n \in Notes : InHand(n)' = InHand(n)
      BY <2>1, <2>2, <1>a DEF InHand, Idle
    <2>4. \A n \in Notes : n # flush[j].at => status'[n] = status[n]
      BY <2>1, <1>a
    <2>5. status[flush[j].at] = "sending" /\ status'[flush[j].at] # "pending"
      BY <2>1, <1>a
    <2>6. \A n \in Notes : Place(n)' = Place(n)
      BY <2>1, <2>3, <2>4, <2>5 DEF Place
    <2> QED
      BY <2>1, <2>6, <1>b
  <1> QED
    BY <1>1, <1>2, <1>3, <1>4 DEF JobStep

(* What fails or dies loses messages that are accepted or in hand, never one *)
(* in the box; the rest is invisible.                                        *)
LEMMA OtherStepMaps ==
    ASSUME IInv,
           \/ \E u \in Users, m \in Modes : SetMode(u, m)
           \/ Cleanup \/ ClockTick \/ DatabaseFails \/ Crash
           \/ UNCHANGED vars
    PROVE  [MB!Next]_(MB!vars)
  <1> USE DEF Places
  <1>a. /\ status \in [Notes -> {"none", "pending", "sending", "sent", "failed"}]
        /\ flush \in [Jobs -> [pc : {"idle", "claim", "send", "mark_sent", "mark_failed"},
                               claimed : SUBSET Notes, at : Notes \union {0}]]
        /\ call \in [Notes -> {"new", "clock", "enqueue", "insert", "send", "returned"}]
        /\ \A n \in Notes : call[n] # "returned" => status[n] = "none"
        /\ \A i \in Jobs, n \in Notes :
             n \in flush[i].claimed => status[n] = "sending" /\ call[n] = "returned"
        /\ \A i \in Jobs : flush[i].pc \in {"idle", "claim"} => flush[i].claimed = {}
    BY DEF IInv, TypeOK, OnlyOneSender, CallMaySend, ClaimsAreExclusive, JobShape
  <1>b. ASSUME \A n \in Notes : Place(n)' = Place(n), UNCHANGED <<created, got>>
        PROVE  UNCHANGED MB!vars
    BY <1>b DEF MB!vars, Place
  <1>c. ASSUME NEW S \in SUBSET Notes,
               \A n \in S : Place(n) \in {"unsent", "accepted", "hand"},
               \A n \in Notes : Place(n)' = IF n \in S THEN "gone" ELSE Place(n),
               UNCHANGED <<created, got>>
        PROVE  MB!Next
    <2>1. MB!Lose(S)
      BY <1>c DEF MB!Lose, MB!Move, Place
    <2> QED
      BY <2>1 DEF MB!Next
  <1>1. CASE \/ \E u \in Users, m \in Modes : SetMode(u, m)
             \/ ClockTick \/ UNCHANGED vars
    <2>1. UNCHANGED <<call, status, flush, created, got>>
      BY <1>1 DEF SetMode, ClockTick, vars
    <2>2. \A n \in Notes : Place(n)' = Place(n)
      BY <2>1 DEF Place, InHand
    <2> QED
      BY <2>1, <2>2, <1>b
  <1>2. CASE Cleanup
    <2>1. /\ UNCHANGED <<call, flush, created, got>>
          /\ \A n \in Notes : status'[n] = "pending" <=> status[n] = "pending"
      BY <1>2, <1>a DEF Cleanup
    <2>2. \A n \in Notes : Place(n)' = Place(n)
      BY <2>1 DEF Place, InHand
    <2> QED
      BY <2>1, <2>2, <1>b
  <1>3. CASE DatabaseFails
    <2>1. UNCHANGED <<status, created, got>>
      BY <1>3 DEF DatabaseFails
    <2>2. CASE \E n \in Notes : /\ call[n] \in {"new", "enqueue", "insert"}
                                /\ call' = [call EXCEPT ![n] = "returned"]
                                /\ UNCHANGED flush
      <3>1. PICK n \in Notes : /\ call[n] \in {"new", "enqueue", "insert"}
                               /\ call' = [call EXCEPT ![n] = "returned"]
                               /\ UNCHANGED flush
        BY <2>2
      <3>2. ~InHand(n) /\ status[n] = "none" /\ \A m \in Notes : InHand(m)' = InHand(m)
        BY <3>1, <1>a DEF InHand
      <3>3. \A m \in Notes : Place(m)' = IF m \in {n} THEN "gone" ELSE Place(m)
        BY <2>1, <3>1, <3>2, <1>a DEF Place
      <3>4. Place(n) \in {"unsent", "accepted"}
        BY <3>1 DEF Place
      <3> QED
        BY <2>1, <3>3, <3>4, <1>c
    <2>3. CASE \E j \in Jobs : /\ flush[j].pc = "mark_sent"
                               /\ flush' = [flush EXCEPT ![j].pc = "mark_failed"]
                               /\ UNCHANGED call
      <3>1. \A n \in Notes : InHand(n)' = InHand(n)
        BY <2>3, <1>a DEF InHand
      <3>2. \A n \in Notes : Place(n)' = Place(n)
        BY <2>1, <2>3, <3>1 DEF Place
      <3> QED
        BY <2>1, <3>2, <1>b
    <2>4. CASE \E j \in Jobs : /\ flush[j].pc \in {"claim", "mark_failed"}
                               /\ flush' = [flush EXCEPT ![j] = Idle]
                               /\ UNCHANGED call
      <3> DEFINE S == {n \in Notes : InHand(n) /\ ~InHand(n)'}
      <3>1. \A n \in Notes : InHand(n)' => InHand(n)
        BY <2>4, <1>a DEF InHand, Idle
      <3>2. \A n \in Notes : InHand(n) => Place(n) = "hand"
        BY <1>a DEF InHand, Place
      <3>3. \A n \in Notes : Place(n)' = IF n \in S THEN "gone" ELSE Place(n)
        BY <2>1, <2>4, <3>1, <3>2 DEF Place
      <3>4. \A n \in S : Place(n) = "hand"
        BY <3>2
      <3> HIDE DEF S
      <3>5. S \in SUBSET Notes
        BY DEF S
      <3> QED
        BY <2>1, <3>3, <3>4, <3>5, <1>c
    <2> QED
      BY <1>3, <2>2, <2>3, <2>4 DEF DatabaseFails
  <1>4. CASE Crash
    <2> DEFINE S == {n \in Notes : Place(n) \in {"accepted", "hand"}}
    <2>1. /\ UNCHANGED <<status, created, got>>
          /\ \A n \in Notes : call'[n] = IF call[n] = "new" THEN "new" ELSE "returned"
          /\ \A n \in Notes : ~InHand(n)'
      BY <1>4 DEF Crash, InHand, Idle
    <2>2. \A n \in Notes : Place(n)' = IF n \in S THEN "gone" ELSE Place(n)
      BY <2>1, <1>a DEF Place
    <2>3. \A n \in S : Place(n) \in {"accepted", "hand"}
      OBVIOUS
    <2> HIDE DEF S
    <2>4. S \in SUBSET Notes
      BY DEF S
    <2> QED
      BY <2>1, <2>2, <2>3, <2>4, <1>c
  <1> QED
    BY <1>1, <1>2, <1>3, <1>4

-----------------------------------------------------------------------------
(* send_private_dm, the queue and its two jobs implement the mailbox, for any *)
(* number of messages, batch size, faults and failing statements: a message   *)
(* that waits is taken out oldest first, delivered at most once and never     *)
(* lost while it waits.                                                       *)
THEOREM MailboxIsImplemented == Spec => ImplementsMailbox
  <1>1. Init => Numbered
    <2> SUFFICES ASSUME Init PROVE Numbered
      OBVIOUS
    <2>1. Cardinality(Stamped) \in Nat /\ Stamped = {}
      BY StampedFinite DEF Init, Stamped
    <2> QED
      BY <2>1 DEF Init, Numbered
  <1>2. IInv /\ Numbered /\ [Next]_vars => Numbered'
    BY NumberedNext
  <1>3. Init => MB!Init
    BY DEF Init, MB!Init
  <1>4. IInv /\ Numbered /\ [Next]_vars => [MB!Next]_(MB!vars)
    BY CallStepMaps, JobStepMaps, OtherStepMaps DEF Next
  <1> QED
    BY <1>1, <1>2, <1>3, <1>4, InvariantHolds, PTL DEF Spec, ImplementsMailbox, MB!Spec

=============================================================================
