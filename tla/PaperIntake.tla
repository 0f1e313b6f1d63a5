----------------------------- MODULE PaperIntake -----------------------------
(***************************************************************************)
(* What a stage of the pipeline promises about what it makes of events     *)
(* that are delivered at least once: every key has at most Copies rows,    *)
(* besides those that were withdrawn from its sight, and they come one at  *)
(* a time; a row exists only for a key that was offered in a form the      *)
(* stage takes; and a row that is there stays.                             *)
(* For module 4 the rows are those of papers, with a copy for every        *)
(* process, and the keys are those of a department; for module 3 they are  *)
(* the papers it publishes, with a copy for every fault and one more, and  *)
(* nothing is withdrawn.                                                   *)
(***************************************************************************)
EXTENDS Integers

CONSTANTS Keys, Copies

VARIABLES
    offered,     \* keys that have been offered in a form that is taken
    rows,        \* rows, for every key
    withdrawn    \* rows the stage has lost sight of at some time

vars == <<offered, rows, withdrawn>>

Init ==
    /\ offered = {}
    /\ rows = [k \in Keys |-> 0]
    /\ withdrawn = [k \in Keys |-> 0]

Offer(k) ==
    /\ offered' = offered \cup {k}
    /\ UNCHANGED <<rows, withdrawn>>

Accept(k) ==
    /\ k \in offered
    /\ rows[k] < Copies + withdrawn[k]
    /\ rows' = [rows EXCEPT ![k] = @ + 1]
    /\ UNCHANGED <<offered, withdrawn>>

Withdraw(k) ==
    /\ withdrawn[k] < rows[k]
    /\ withdrawn' = [withdrawn EXCEPT ![k] = @ + 1]
    /\ UNCHANGED <<offered, rows>>

Next == \E k \in Keys : Offer(k) \/ Accept(k) \/ Withdraw(k)

Spec == Init /\ [][Next]_vars
=============================================================================
