----------------------------- MODULE MCSplitBill -----------------------------
(* Instances of SplitBill small enough for TLC: an organizer and two members, *)
(* two handlers at a time.                                                    *)
EXTENDS SplitBill, TLC

(* The members other than the organizer are interchangeable, and so are tasks. *)
Symmetry == Permutations(Users \ {Organizer}) \union Permutations(Tasks)
=============================================================================
