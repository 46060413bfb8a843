-------------------------------- MODULE Mailbox --------------------------------
(***************************************************************************)
(* What becomes of a private message.  The bot accepts it or drops it; it  *)
(* may date it and keep it for the morning, in the place its date gives it *)
(* in the box; the box is emptied from its front, a batch at a time; a     *)
(* message in hand is given to its addressee once, or lost.  Nothing is    *)
(* lost in the box, nothing returns to it, and what is gone stays gone.    *)
(* Notifications implements this whatever jobs overlap and wherever the    *)
(* process dies.                                                           *)
(***************************************************************************)
EXTENDS Integers, FiniteSets

CONSTANTS
    Notes,   \* the messages
    Batch    \* how many are taken out of the box at once, at most

VARIABLES
    place,   \* place[n]: "unsent", "accepted", "box", "hand" or "gone"
    since,   \* since[n]: the date of n, as a rank; 0: it has none
    copies   \* copies[n]: how many copies the addressee has

vars == <<place, since, copies>>

Box == {n \in Notes : place[n] = "box"}
Move(S, p) == place' = [n \in Notes |-> IF n \in S THEN p ELSE place[n]]

Init ==
    /\ place = [n \in Notes |-> "unsent"]
    /\ since = [n \in Notes |-> 0]
    /\ copies = [n \in Notes |-> 0]

Accept(n) ==
    /\ place[n] = "unsent"
    /\ Move({n}, "accepted")
    /\ UNCHANGED <<since, copies>>

Date(n) ==
    /\ place[n] = "accepted" /\ since[n] = 0
    /\ since' \in [Notes -> Nat]
    /\ \A m \in Notes \ {n} : since'[m] = since[m] /\ since'[m] < since'[n]
    /\ UNCHANGED <<place, copies>>

Keep(n) ==
    /\ place[n] = "accepted" /\ since[n] # 0
    /\ Move({n}, "box")
    /\ UNCHANGED <<since, copies>>

Take(S) ==
    /\ S \subseteq Box /\ Cardinality(S) <= Batch
    /\ \A n \in S, m \in Box \ S : since[n] < since[m]
    /\ Move(S, "hand")
    /\ UNCHANGED <<since, copies>>

Give(n) ==
    /\ place[n] \in {"accepted", "hand"}
    /\ Move({n}, "gone")
    /\ copies' = [copies EXCEPT ![n] = @ + 1]
    /\ UNCHANGED since

(* Dropped because it is not wanted, refused by Telegram, or forgotten by a *)
(* process that dies.                                                       *)
Lose(S) ==
    /\ \A n \in S : place[n] \in {"unsent", "accepted", "hand"}
    /\ Move(S, "gone")
    /\ UNCHANGED <<since, copies>>

Next ==
    \/ \E n \in Notes : Accept(n) \/ Date(n) \/ Keep(n) \/ Give(n)
    \/ \E S \in SUBSET Notes : Take(S) \/ Lose(S)

Spec == Init /\ [][Next]_vars

=============================================================================
