----------------------------- MODULE AtMostOnce -----------------------------
(***************************************************************************)
(* What a form promises whose submission costs something: however often    *)
(* the button is pressed, whatever is lost on the way, at most one thing   *)
(* comes of it, and success is only reported when there is one.            *)
(***************************************************************************)
EXTENDS Naturals

CONSTANTS Forms, Nobody

VARIABLES
    made,       \* per form, how many things came of it
    reported    \* the form whose success is on the screen

Init == made = [f \in Forms |-> 0] /\ reported = Nobody

Make(f) == made[f] = 0 /\ made' = [made EXCEPT ![f] = 1] /\ UNCHANGED reported

Report(f) == made[f] = 1 /\ reported' = f /\ UNCHANGED made

Dismiss == reported' = Nobody /\ UNCHANGED made

Next == Dismiss \/ \E f \in Forms : Make(f) \/ Report(f)

Spec == Init /\ [][Next]_<<made, reported>>
=============================================================================
