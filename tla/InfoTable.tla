------------------------------ MODULE InfoTable ------------------------------
(***************************************************************************)
(* The table of listening results, communication_info_array                *)
(* (info_manager.c): one entry per listened interface, with a flag that    *)
(* says whether the entry has changed since it was last put in a batch for *)
(* the center, and the cursor `memoried' at which the next batch starts.   *)
(***************************************************************************)
EXTENDS Integers, FiniteSets

CONSTANTS
    N,      \* communication_info_cnt of a node
    Max     \* MAX_SYNC_COMMUNICATION_INFO_NUM_FOR_ONE_TIME

ASSUME InfoTableAssumption ==
    /\ N \in Nat \ {0}
    /\ Max \in Nat \ {0, 1}

Entries == 0..(N - 1)

Newest   == 1
NotNewest == -1
Flags    == {Newest, NotNewest}

\* Entries the loop of parse_newest_communication_infos_to_json puts in the
\* batch when it starts at memo and ends at last.
Taken(flag, memo, last) == {i \in memo..last : flag[i] = Newest}

\* Mutant: the loop always runs on to the end of the table.
EndsAtTheEnd(flag, memo, last) == Cardinality(Taken(flag, memo, last)) <= N /\ last = N - 1

\* The index at which that loop ends: at the entry that fills the batch, or
\* at the end of the table.
EndsAt(flag, memo, last) ==
    LET taken == Taken(flag, memo, last) IN
    \/ Cardinality(taken) = Max /\ last \in taken
    \/ Cardinality(taken) < Max /\ last = N - 1

\* Mutant: the cursor is left at the end of the table.
NextStuck(last) == last

\* Mutant: the cursor is set past the last entry taken.
NextPast(last) == last + 1

\* Where the next batch starts: at the last entry of this one, not after it,
\* and at the beginning of the table when the end was reached.
NextMemo(last) == IF last = N - 1 THEN 0 ELSE last

Unflag(flag, taken) ==
    [i \in Entries |-> IF i \in taken THEN NotNewest ELSE flag[i]]
=============================================================================
