---------------------------- MODULE ResultChannel ----------------------------
(***************************************************************************)
(* What the synchronisation of results promises, seen from the center: for *)
(* each entry it shows nothing, the blank entry a node starts with, or a   *)
(* result the node has published.  As long as no message has overtaken     *)
(* another one, a result is never followed by an older one, restarts       *)
(* included.                                                               *)
(***************************************************************************)
EXTENDS Integers

CONSTANTS
    Entries,
    MaxRound,
    Blank,
    Missing

VARIABLES
    last,    \* last round published for each entry
    shown,   \* what the center shows
    top,     \* last round the center has ever shown
    inOrder  \* no message has overtaken another one so far

vars == <<last, shown, top, inOrder>>

Init ==
    /\ last = [i \in Entries |-> Blank]
    /\ top = [i \in Entries |-> Blank]
    /\ shown = [i \in Entries |-> Missing]
    /\ inOrder = TRUE

Publish(i) ==
    /\ last[i] < MaxRound
    /\ last' = [last EXCEPT ![i] = @ + 1]
    /\ UNCHANGED <<shown, top, inOrder>>

ShowBlank(i) ==
    /\ shown' = [shown EXCEPT ![i] = Blank]
    /\ UNCHANGED <<last, top, inOrder>>

Show(i) ==
    \E v \in 1..last[i] :
        /\ inOrder => v >= top[i]
        /\ shown' = [shown EXCEPT ![i] = v]
        /\ top' = [top EXCEPT ![i] = IF @ > v THEN @ ELSE v]
        /\ UNCHANGED <<last, inOrder>>

\* The center restarts.
Forget ==
    /\ shown' = [i \in Entries |-> Missing]
    /\ UNCHANGED <<last, top, inOrder>>

\* From now on the order is not kept.
Overtake ==
    /\ inOrder' = FALSE
    /\ UNCHANGED <<last, shown, top>>

Next == Forget \/ Overtake \/ \E i \in Entries : Publish(i) \/ Show(i) \/ ShowBlank(i)

Spec == Init /\ [][Next]_vars
=============================================================================
