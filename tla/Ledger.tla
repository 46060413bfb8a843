-------------------------------- MODULE Ledger --------------------------------
(***************************************************************************)
(* The book of a split bill: who owes, who has settled.  Members come and  *)
(* go, come again as debtors and settle while the bill is open; it is      *)
(* closed when somebody took part and nobody owes, and then the book is    *)
(* final.  It is kept until something gets in the way of a handler that is *)
(* about to close the bill: from then on it promises nothing.  SplitBill   *)
(* implements this wherever handlers overlap or break off.                 *)
(***************************************************************************)
CONSTANT Users

VARIABLES
    status,     \* "none", "open" or "closed"
    owing,      \* who takes part and has not paid
    settled,    \* who takes part and has paid
    disturbed   \* something has happened in the middle of the closing

vars == <<status, owing, settled, disturbed>>

Init == status = "none" /\ owing = {} /\ settled = {} /\ disturbed = FALSE

Open ==
    /\ status = "none" /\ status' = "open"
    /\ UNCHANGED <<owing, settled>>

Join(u) ==
    /\ status = "open"
    /\ owing' = owing \union {u} /\ settled' = settled \ {u}
    /\ UNCHANGED status

Depart(u) ==
    /\ status = "open"
    /\ owing' = owing \ {u} /\ settled' = settled \ {u}
    /\ UNCHANGED status

Settle(u) ==
    /\ status = "open" /\ u \in owing
    /\ owing' = owing \ {u} /\ settled' = settled \union {u}
    /\ UNCHANGED status

Close ==
    /\ status = "open" /\ owing = {} /\ settled # {}
    /\ status' = "closed"
    /\ UNCHANGED <<owing, settled>>

Entry == Open \/ Close \/ \E u \in Users : Join(u) \/ Depart(u) \/ Settle(u)

Next == disturbed' \/ (Entry /\ UNCHANGED disturbed)

Spec == Init /\ [][Next]_vars

=============================================================================
