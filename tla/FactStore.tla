------------------------------ MODULE FactStore ------------------------------
(***************************************************************************)
(* What collecting an account promises, whatever the broker: a fact the    *)
(* broker reports is held at most once, nothing is held that was not       *)
(* reported, and what is held stays until the whole connection is dropped. *)
(***************************************************************************)
EXTENDS Naturals

CONSTANT FactIds

VARIABLES
    reported,   \* the facts the broker can be asked for
    held        \* how often each fact that is held is held

StoreInit ==
    /\ reported = {}
    /\ held = [f \in {} |-> 0]

\* One event of the account may be several facts.
Report ==
    /\ reported \subseteq reported' /\ reported' \subseteq FactIds
    /\ UNCHANGED held

Hold(f) ==
    /\ f \in reported \ DOMAIN held
    /\ held' = [g \in DOMAIN held \cup {f} |-> IF g = f THEN 1 ELSE held[g]]
    /\ UNCHANGED reported

Drop ==
    /\ held' = [f \in {} |-> 0]
    /\ UNCHANGED reported

StoreNext ==
    \/ Report
    \/ \E f \in reported : Hold(f)
    \/ Drop

StoreSpec == StoreInit /\ [][StoreNext]_<<reported, held>>

=============================================================================
