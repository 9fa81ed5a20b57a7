---------------------------- MODULE NewestCursor ----------------------------
(***************************************************************************)
(* How long a new result waits to be put in a batch for the center.        *)
(*                                                                         *)
(* The test thread of the interface that is linked with the center calls   *)
(* parse_newest_communication_infos_to_json SYNC_PARTS_NUM times in every  *)
(* round.  Each call takes at most Max changed entries from the cursor on  *)
(* and leaves the cursor AT the last one it took.  Meanwhile the threads   *)
(* that count messages change entries at any rate, those already taken     *)
(* included, so the question is whether the entries beyond the cursor can  *)
(* be starved by the entry it stands at.                                   *)
(***************************************************************************)
EXTENDS InfoTable

VARIABLES
    flag,    \* if_newest_flag of each entry
    memo,    \* memoried
    flag0,   \* what malloc left in if_newest_flag: nothing initialises it
    age      \* history: batches built since the entry was flagged

vars == <<flag, memo, flag0, age>>

\* A wait of a batches is possible: every batch but the first moves the cursor
\* past Max - 1 entries, and the way round the table is N - 2 entries long.
Possible(a) == (a - 1) * (Max - 1) <= N - 2

\* Waits that are not possible are not told apart.
Older(a) == IF Possible(a) THEN a + 1 ELSE a

Init ==
    /\ flag0 \in [Entries -> Flags]
    /\ flag = flag0
    /\ memo = 0
    /\ age = [i \in Entries |-> 0]

\* update_communication_info_array.
Update(i) ==
    /\ flag' = [flag EXCEPT ![i] = Newest]
    /\ UNCHANGED <<memo, flag0, age>>

\* parse_newest_communication_infos_to_json(Max, 1), all under the lock.
Parse ==
    \E last \in memo..(N - 1) :
        /\ EndsAt(flag, memo, last)
        /\ flag' = Unflag(flag, Taken(flag, memo, last))
        /\ memo' = NextMemo(last)
        /\ age' = [i \in Entries |-> IF flag'[i] = Newest THEN Older(age[i]) ELSE 0]
        /\ UNCHANGED flag0

\* The supervisor forks again from the parent's untouched table.
Restart ==
    /\ flag' = flag0
    /\ memo' = 0
    /\ age' = [i \in Entries |-> 0]
    /\ UNCHANGED flag0

Next == Parse \/ Restart \/ \E i \in Entries : Update(i)

Spec == Init /\ [][Next]_vars

\* The synchronising thread comes round again and again.
FairSpec == Spec /\ WF_vars(Parse)

-----------------------------------------------------------------------------
\* The cursor never leaves the table.
TypeOK ==
    /\ flag \in [Entries -> Flags] /\ flag0 \in [Entries -> Flags]
    /\ memo \in Entries
    /\ age \in [Entries -> Nat]

\* No entry is starved, however often the others change: with the 24 entries
\* of the largest configured node and batches of 6 it is passed over by at most
\* 5 batches, that is for less than 3 rounds.
NoEntryStarved == \A i \in Entries : Possible(age[i])

\* What makes it inductive: an entry ahead of the cursor has been passed over
\* since the cursor was at 0 or, if it was behind the cursor then, since the
\* cursor went round; one behind the cursor, since the cursor passed it.
WaitInv ==
    /\ memo <= N - 2 \/ memo = 0
    /\ \A i \in Entries :
          IF i < memo
          THEN age[i] * (Max - 1) <= memo - (i + 1)
          ELSE \/ age[i] = 0
               \/ age[i] * (Max - 1) <= memo /\ memo < i
               \/ (age[i] - 1) * (Max - 1) <= (N - 2) - (i + 1) + memo /\ memo <= i

\* A changed entry is put in a batch, unless the process is restarted for ever.
EveryUpdateIsTaken ==
    <>[][~Restart]_vars =>
        \A i \in Entries : (flag[i] = Newest) ~> (flag[i] = NotNewest)
=============================================================================
