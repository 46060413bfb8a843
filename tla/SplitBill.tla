------------------------------ MODULE SplitBill ------------------------------
(***************************************************************************)
(* One split bill (bot/handlers/split_bill_feature, bot/db/split_bill.py): *)
(* its row of split_bill_events, its rows of split_bill_participants and   *)
(* the handlers that change them.                                          *)
(*                                                                         *)
(* A handler is an asyncio task that yields at every SQL statement, and    *)
(* every statement commits by itself.  Whoever joins or leaves is followed *)
(* by a recalculation: one SELECT of the members, then one UPDATE per      *)
(* member with the share computed from that SELECT.  Amounts are left out: *)
(* share[u] is the number of people the total was divided by, and 0 is the *)
(* 0.0 every row is inserted with.                                         *)
(*                                                                         *)
(* A definition marked "Fault" is no part of the model: it is a plausible  *)
(* bug of the definition that follows it.                                  *)
(***************************************************************************)
EXTENDS Integers, FiniteSets

CONSTANTS
    Users,       \* the approved members of the group
    Organizer,   \* the one who creates the bill
    Tasks        \* bound: how many handlers run at the same time

ASSUME SplitBillAssumption == IsFiniteSet(Users) /\ Organizer \in Users

VARIABLES
    status,      \* split_bill_events.status; "none": no such row yet
    published,   \* the card is in the group
    members,     \* the users that have a row in split_bill_participants
    paid,        \* those of them with is_paid
    share,       \* share_amount of every row
    job,         \* job[t]: where task t is
    raced,       \* history: recalculations have overlapped, and none has begun alone since
    broken,      \* history: a recalculation has broken off, and none has read since
    contested    \* history: a handler has run while another was about to close the bill

ghosts == <<raced, broken, contested>>
vars == <<status, published, members, paid, share, job, ghosts>>

Job(pc, queue, then) ==
    [pc |-> pc, queue |-> queue, todo |-> {}, num |-> 0, then |-> then]

Idle == Job("idle", {}, "idle")

(* queue: the users the handler has still to deal with; todo and num: the rows *)
(* a recalculation has still to update and the number of rows it has seen;     *)
(* then: what follows the last recalculation.                                  *)
Jobs ==
    [pc : {"idle", "insert", "delete", "read", "write", "publish",
           "paid_read", "paid", "close_read", "close"},
     queue : SUBSET Users, todo : SUBSET Users, num : Nat,
     then : {"idle", "publish"}]

Busy(t) == job[t].pc # "idle"
Sharing(t) == job[t].pc \in {"insert", "delete", "read", "write"}
Closing(t) == job[t].pc \in {"close_read", "close"}

(* Handler t begins: it has found the bill as it wants it. *)
Begin(t, pc, queue, then) ==
    /\ job[t].pc = "idle"
    /\ job' = [job EXCEPT ![t] = Job(pc, queue, then)]
    /\ raced' = IF pc \in {"insert", "delete"} THEN \E other \in Tasks : Sharing(other) ELSE raced
    /\ contested' = (contested \/ \E other \in Tasks : Busy(other) /\ (Closing(other) \/ pc = "close_read"))
    /\ UNCHANGED broken

Rows == <<members, paid, share>>

-----------------------------------------------------------------------------
(* finalize_split_bill: the row of the bill, then the participants of the     *)
(* source event (if there is one) and the organizer, one after the other.     *)
Finalize(t) ==
    /\ status = "none"
    /\ \E going \in SUBSET Users : Begin(t, "insert", going \union {Organizer}, "publish")
    /\ status' = "open"
    /\ UNCHANGED <<published, Rows>>

(* Telegram may refuse the card: the bill is then there, and nobody sees it. *)
Publish(t) ==
    /\ job[t].pc = "publish"
    /\ published' \in BOOLEAN
    /\ job' = [job EXCEPT ![t] = Idle]
    /\ UNCHANGED <<status, Rows, ghosts>>

-----------------------------------------------------------------------------
(* The buttons of the card, each after its check of the status. *)

JoinClick(t, u) ==
    /\ published /\ status = "open"
    /\ Begin(t, "insert", {u}, "idle")
    /\ UNCHANGED <<status, published, Rows>>

(* Fault: the status is not looked at. *)
LeaveClickAnyTime(t, u) ==
    /\ published /\ u # Organizer
    /\ Begin(t, "delete", {u}, "idle")
    /\ UNCHANGED <<status, published, Rows>>

LeaveClick(t, u) ==
    /\ published /\ status = "open" /\ u # Organizer
    /\ Begin(t, "delete", {u}, "idle")
    /\ UNCHANGED <<status, published, Rows>>

PaidClick(t, u) ==
    /\ published /\ status = "open"
    /\ Begin(t, "paid_read", {u}, "idle")
    /\ UNCHANGED <<status, published, Rows>>

(* "Yes, close the bill": the status is not looked at. *)
CloseConfirm(t) ==
    /\ published
    /\ Begin(t, "close_read", {}, "idle")
    /\ UNCHANGED <<status, published, Rows>>

(* The organizer's commands; they name the bill by its number. *)

AddCommand(t, u) ==
    /\ status = "open"
    /\ Begin(t, "insert", {u}, "idle")
    /\ UNCHANGED <<status, published, Rows>>

(* The organizer may name himself. *)
RemoveCommand(t, u) ==
    /\ status = "open"
    /\ Begin(t, "delete", {u}, "idle")
    /\ UNCHANGED <<status, published, Rows>>

-----------------------------------------------------------------------------
(* add_split_bill_participant: an upsert; a member who joins again is as a    *)
(* new one, and has not paid.                                                 *)
Insert(t) ==
    /\ job[t].pc = "insert"
    /\ \E u \in job[t].queue :
         /\ members' = members \union {u}
         /\ paid' = paid \ {u}
         /\ share' = [share EXCEPT ![u] = 0]
         /\ job' = [job EXCEPT ![t].pc = "read", ![t].queue = @ \ {u}]
    /\ UNCHANGED <<status, published, ghosts>>

(* remove_split_bill_participant *)
Delete(t) ==
    /\ job[t].pc = "delete"
    /\ \E u \in job[t].queue :
         /\ members' = members \ {u}
         /\ paid' = paid \ {u}
         /\ share' = [share EXCEPT ![u] = 0]
         /\ job' = [job EXCEPT ![t].pc = "read", ![t].queue = @ \ {u}]
    /\ UNCHANGED <<status, published, ghosts>>

(* After a recalculation: the next participant of the source event, or the   *)
(* rest of the handler.                                                      *)
AfterRecalculation(t) ==
    IF job[t].queue # {} THEN Job("insert", job[t].queue, job[t].then)
                         ELSE Job(job[t].then, {}, "idle")

(* The rows still to be updated, with the total divided by num. *)
Updating(t, todo, num) ==
    [pc |-> "write", queue |-> job[t].queue, todo |-> todo, num |-> num,
     then |-> job[t].then]

(* Fault: those whose share is known already are left alone. *)
SharersNew == {u \in members : share[u] = 0}

(* Fault: the newcomer is not among them. *)
SharersKnown == {u \in members : share[u] # 0}

(* The rows a recalculation is going to update. *)
Sharers == members

(* recalculate_split_bill_shares, its SELECT ... *)
RecalculateRead(t) ==
    /\ job[t].pc = "read"
    /\ job' = [job EXCEPT ![t] =
          IF Sharers = {} THEN AfterRecalculation(t)
          ELSE Updating(t, Sharers, Cardinality(members))]
    /\ broken' = FALSE
    /\ UNCHANGED <<status, published, Rows, raced, contested>>

(* ... and one of its UPDATEs: a row that is gone is not written. *)
RecalculateWrite(t) ==
    /\ job[t].pc = "write"
    /\ \E u \in job[t].todo :
         /\ share' = [share EXCEPT ![u] = IF u \in members THEN job[t].num ELSE @]
         /\ job' = [job EXCEPT ![t] =
               IF job[t].todo = {u} THEN AfterRecalculation(t)
               ELSE Updating(t, job[t].todo \ {u}, job[t].num)]
    /\ UNCHANGED <<status, published, members, paid, ghosts>>

(* split_bill_paid_callback asks whether the user takes part, ... *)
PaidRead(t) ==
    /\ job[t].pc = "paid_read"
    /\ job' = [job EXCEPT ![t] =
          IF job[t].queue \subseteq members THEN Job("paid", job[t].queue, "idle") ELSE Idle]
    /\ UNCHANGED <<status, published, Rows, ghosts>>

(* Fault: a row that is gone is written again. *)
PaidRowsUpserted(t) == job[t].queue

PaidRows(t) == job[t].queue \intersect members

(* ... mark_split_bill_paid writes: nothing if the row is gone meanwhile. *)
PaidWrite(t) ==
    /\ job[t].pc = "paid"
    /\ paid' = paid \union PaidRows(t)
    /\ job' = [job EXCEPT ![t] = Idle]
    /\ UNCHANGED <<status, published, members, share, ghosts>>

(* Fault: one payment is enough. *)
ReadySome == members \intersect paid # {}

(* close_bill_if_ready: nobody is left unpaid. *)
Ready == members # {} /\ members \subseteq paid

CloseRead(t) ==
    /\ job[t].pc = "close_read"
    /\ job' = [job EXCEPT ![t] = IF Ready THEN Job("close", {}, "idle") ELSE Idle]
    /\ UNCHANGED <<status, published, Rows, ghosts>>

CloseWrite(t) ==
    /\ job[t].pc = "close"
    /\ status' = "closed"
    /\ job' = [job EXCEPT ![t] = Idle]
    /\ UNCHANGED <<published, Rows, ghosts>>

(* A statement fails, or the process dies: one handler or all of them stop   *)
(* where they are.                                                           *)
Break ==
    /\ \E stopped \in {Tasks} \union {{t} : t \in Tasks} :
         /\ \E t \in stopped : job[t].pc # "idle"
         /\ job' = [t \in Tasks |-> IF t \in stopped THEN Idle ELSE job[t]]
         /\ broken' = (broken \/ \E t \in stopped : Sharing(t))
    /\ UNCHANGED <<status, published, Rows, raced, contested>>

-----------------------------------------------------------------------------
Init ==
    /\ status = "none" /\ published = FALSE
    /\ members = {} /\ paid = {} /\ share = [u \in Users |-> 0]
    /\ job = [t \in Tasks |-> Idle]
    /\ raced = FALSE /\ broken = FALSE /\ contested = FALSE

UserStep(t, u) ==
    \/ JoinClick(t, u) \/ LeaveClick(t, u) \/ PaidClick(t, u)
    \/ AddCommand(t, u) \/ RemoveCommand(t, u)

TaskStep(t) ==
    \/ Publish(t) \/ Insert(t) \/ Delete(t)
    \/ RecalculateRead(t) \/ RecalculateWrite(t)
    \/ PaidRead(t) \/ PaidWrite(t) \/ CloseRead(t) \/ CloseWrite(t)

Next ==
    \/ \E t \in Tasks :
         Finalize(t) \/ CloseConfirm(t) \/ TaskStep(t) \/ \E u \in Users : UserStep(t, u)
    \/ Break

Spec == Init /\ [][Next]_vars

-----------------------------------------------------------------------------
(* The variables have their types; only a member can have paid. *)
TypeOK ==
    /\ status \in {"none", "open", "closed"} /\ published \in BOOLEAN
    /\ members \subseteq Users /\ paid \subseteq members
    /\ share \in [Users -> Nat]
    /\ job \in [Tasks -> Jobs]
    /\ raced \in BOOLEAN /\ broken \in BOOLEAN /\ contested \in BOOLEAN

(* A member whose share is still the 0.0 of the INSERT (the card shows it) is *)
(* never forgotten, however joins, rejoins and departures overlap: some       *)
(* recalculation is going to read the members, or has his row before it.      *)
(* When one breaks off, the next to read the members takes its rows over.     *)
ShareAwaited ==
    ~broken => \A u \in members : share[u] = 0 =>
        \E t \in Tasks : job[t].pc = "read" \/ (job[t].pc = "write" /\ u \in job[t].todo)

(* When nobody is joining or leaving, everyone's share is the total divided   *)
(* by the number of members: the loop over the rows reaches them all, those   *)
(* who have paid too, for every participant taken over from the event.        *)
(* Overlapping recalculations may leave unequal shares and one that broke off *)
(* old ones; the next join or departure that goes undisturbed mends them.     *)
SharesAgree ==
    ~broken /\ ~raced /\ (\A t \in Tasks : ~Sharing(t))
      => \A u \in members : share[u] = Cardinality(members)

(* A closed bill has no debtor, however its handlers overlap and wherever     *)
(* they break off, unless one ran while another was about to close it:        *)
(* nothing that started after it was closed touches its rows.                 *)
ClosedIsPaid == ~contested /\ status = "closed" => members \subseteq paid

(* As long as no handler runs while another is about to close it, the bill is *)
(* a ledger, wherever handlers overlap or break off: nobody is added, removed *)
(* or marked paid once it is closed, who joins again owes again, and it is    *)
(* closed on no open debt.                                                    *)
Book == INSTANCE Ledger WITH
          owing <- members \ paid,
          settled <- paid,
          disturbed <- contested
ImplementsLedger == Book!Spec
=============================================================================
