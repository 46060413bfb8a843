------------------------------- MODULE SeatBook -------------------------------
(***************************************************************************)
(* What the roster of an event promises, with every press of a button one  *)
(* step: a limited number of places, taken by members and the guests they  *)
(* bring, and a queue.  A place is taken and guests are added only while   *)
(* they fit, a new name in the queue goes to its end, and nobody gets in   *)
(* once the event is closed.  Participation implements this while its      *)
(* handlers run one at a time.                                             *)
(***************************************************************************)
EXTENDS Integers, FiniteSets

CONSTANTS Users, Limits, MaxGuests

VARIABLES
    open,    \* the event is not cancelled
    limit,   \* the number of places; <= 0: as many as come
    place,   \* place[u]: "in", "queue" or "out"
    guests,  \* guests[u]: how many guests u brings
    ahead    \* ahead[u]: who waits in front of u

vars == <<open, limit, place, guests, ahead>>

In == {u \in Users : place[u] = "in"}
Queue == {u \in Users : place[u] = "queue"}
Taken == Cardinality({s \in Users \X (0..MaxGuests) : s[1] \in In /\ s[2] <= guests[s[1]]})
Fits(n) == limit <= 0 \/ Taken + n <= limit

Move(u, p) ==
    /\ place' = [place EXCEPT ![u] = p]
    /\ guests' = [guests EXCEPT ![u] = 0]
    /\ ahead' = [v \in Users |-> IF v = u THEN (IF p = "queue" THEN Queue \ {u} ELSE {})
                                          ELSE ahead[v] \ {u}]

Init ==
    /\ open = TRUE
    /\ limit \in Limits
    /\ place = [u \in Users |-> "out"]
    /\ guests = [u \in Users |-> 0]
    /\ ahead = [u \in Users |-> {}]

Take(u) == open /\ u \notin In /\ Fits(1) /\ Move(u, "in") /\ UNCHANGED <<open, limit>>

Wait(u) == open /\ u \notin Queue /\ Move(u, "queue") /\ UNCHANGED <<open, limit>>

Leave(u) == place[u] # "out" /\ Move(u, "out") /\ UNCHANGED <<open, limit>>

Bring(u, g) ==
    /\ open /\ u \in In /\ g # guests[u]
    /\ Fits(g - guests[u])
    /\ guests' = [guests EXCEPT ![u] = g]
    /\ UNCHANGED <<open, limit, place, ahead>>

Resize(l) == limit' = l /\ UNCHANGED <<open, place, guests, ahead>>

Close == open /\ open' = FALSE /\ UNCHANGED <<limit, place, guests, ahead>>

Clear ==
    /\ ~open
    /\ place' = [u \in Users |-> "out"]
    /\ guests' = [u \in Users |-> 0]
    /\ ahead' = [u \in Users |-> {}]
    /\ UNCHANGED <<open, limit>>

Next ==
    \/ \E u \in Users : Take(u) \/ Wait(u) \/ Leave(u) \/ \E g \in 0..MaxGuests : Bring(u, g)
    \/ \E l \in Limits : Resize(l)
    \/ Close
    \/ Clear

Spec == Init /\ [][Next]_vars

=============================================================================
