------------------------------- MODULE Delivery -------------------------------
(***************************************************************************)
(* What RCDN::get promises its callers: each chunk that was asked for is   *)
(* written to its place, right and once, or is still wanted when get       *)
(* returns; and get does return.                                           *)
(***************************************************************************)
CONSTANT Dst

VARIABLES
    wanted,     \* what was not delivered yet
    written,    \* what was: records [id, at]
    returned

vars == <<wanted, written, returned>>

Init ==
    /\ wanted = Dst
    /\ written = {}
    /\ returned = FALSE

\* Some of the wanted chunks are written where they belong.
Deliver ==
    /\ ~returned
    /\ \E some \in (SUBSET wanted) \ {{}} :
        /\ wanted' = wanted \ some
        /\ written' = written \cup some
    /\ UNCHANGED returned

Return ==
    /\ ~returned
    /\ returned' = TRUE
    /\ UNCHANGED <<wanted, written>>

Next == Deliver \/ Return

Spec == Init /\ [][Next]_vars /\ WF_vars(Return)
=============================================================================
