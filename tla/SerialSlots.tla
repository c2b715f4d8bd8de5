---------------------------- MODULE SerialSlots ----------------------------
(***************************************************************************)
(* What the queue promises of work that is "serialized per user": every    *)
(* slot is occupied by at most one occupant, which leaves before the next  *)
(* one enters.  One step may change several slots (a sweep that cancels    *)
(* the jobs of several users), but never swaps the occupant of one.        *)
(***************************************************************************)
CONSTANTS Slot, Occupant

VARIABLE occupants    \* [Slot -> SUBSET Occupant]

Init == occupants = [s \in Slot |-> {}]

Stays(s) == occupants'[s] = occupants[s]

Enters(s) == occupants[s] = {} /\ \E o \in Occupant : occupants'[s] = {o}

Leaves(s) == occupants'[s] = {}

Next == /\ occupants' = [s \in Slot |-> occupants'[s]]
        /\ \A s \in Slot : Stays(s) \/ Enters(s) \/ Leaves(s)

Spec == Init /\ [][Next]_occupants

=============================================================================
