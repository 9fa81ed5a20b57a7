------------------------- MODULE NewestCursorProofs -------------------------
(***************************************************************************)
(* No result is starved by the cursor, for tables and batches of any size. *)
(*                                                                         *)
(* The argument: a batch that passes over an entry is full, so it moves    *)
(* the cursor past Max - 1 entries (FullBatchMoves).  WaitInv adds these   *)
(* moves up along the way of the cursor round the table.                   *)
(***************************************************************************)
EXTENDS NewestCursor, FiniteSetTheorems, TLAPS

\* A full batch reaches from the cursor over at least Max entries.
LEMMA FullBatchMoves ==
  ASSUME NEW f, NEW m \in Entries, NEW last \in m..(N - 1),
         Cardinality(Taken(f, m, last)) = Max
  PROVE  last >= m + (Max - 1)
<1>1. m \in Int /\ last \in Int /\ m <= last /\ Max \in Int
  BY InfoTableAssumption DEF Entries
<1>2. Taken(f, m, last) \in SUBSET (m..last)
  BY DEF Taken
<1>3. IsFiniteSet(m..last) /\ Cardinality(m..last) = last - m + 1
  BY <1>1, FS_Interval
<1>4. Cardinality(Taken(f, m, last)) <= Cardinality(m..last)
  BY <1>2, <1>3, FS_Subset
<1>5. QED
  BY <1>1, <1>3, <1>4

\* The cursor stays in the table.
THEOREM TypeCorrect == Spec => []TypeOK
<1> USE InfoTableAssumption
<1>1. Init => TypeOK
  BY DEF Init, TypeOK, Entries
<1>2. TypeOK /\ [Next]_vars => TypeOK'
  <2> SUFFICES ASSUME TypeOK, [Next]_vars PROVE TypeOK'
    OBVIOUS
  <2>1. CASE Parse
    <3>1. PICK last \in memo..(N - 1) :
            /\ flag' = Unflag(flag, Taken(flag, memo, last))
            /\ memo' = NextMemo(last)
            /\ age' = [i \in Entries |-> IF flag'[i] = Newest THEN Older(age[i]) ELSE 0]
            /\ UNCHANGED flag0
      BY <2>1 DEF Parse
    <3>2. memo' \in Entries
      BY <3>1 DEF NextMemo, TypeOK, Entries
    <3>3. flag' \in [Entries -> Flags]
      BY <3>1 DEF Unflag, TypeOK, Flags
    <3>4. \A i \in Entries : Older(age[i]) \in Nat
      BY DEF Older, TypeOK
    <3>5. QED
      BY <3>1, <3>2, <3>3, <3>4 DEF TypeOK
  <2>2. CASE Restart
    BY <2>2 DEF Restart, TypeOK, Entries
  <2>3. ASSUME NEW i \in Entries, Update(i) PROVE TypeOK'
    BY <2>3 DEF Update, TypeOK, Flags
  <2>4. CASE UNCHANGED vars
    BY <2>4 DEF vars, TypeOK
  <2>5. QED
    BY <2>1, <2>2, <2>3, <2>4 DEF Next
<1>3. QED
  BY <1>1, <1>2, PTL DEF Spec

\* What WaitInv says of one entry.
WaitOf(i) ==
    IF i < memo
    THEN age[i] * (Max - 1) <= memo - (i + 1)
    ELSE \/ age[i] = 0
         \/ age[i] * (Max - 1) <= memo /\ memo < i
         \/ (age[i] - 1) * (Max - 1) <= (N - 2) - (i + 1) + memo /\ memo <= i

\* The wait that WaitInv allows an entry is a possible one.
LEMMA WaitIsPossible ==
  ASSUME TypeOK, WaitInv, NEW i \in Entries PROVE Possible(age[i])
<1>1. /\ i \in Int /\ 0 <= i /\ i <= N - 1 /\ memo \in Int /\ 0 <= memo /\ memo <= N - 1
      /\ N \in Int /\ Max \in Int /\ Max - 1 >= 1 /\ age[i] \in Nat
  BY InfoTableAssumption DEF TypeOK, Entries
<1>2. (age[i] - 1) * (Max - 1) = age[i] * (Max - 1) - (Max - 1)
  BY <1>1
<1>3. age[i] * (Max - 1) \in Int
  BY <1>1
<1> DEFINE w == age[i] * (Max - 1)
<1>4. WaitOf(i) /\ (memo <= N - 2 \/ memo = 0)
  BY DEF WaitInv, WaitOf
<1>5. CASE age[i] = 0
  <2>1. w = 0
    BY <1>1, <1>5
  <2>2. QED
    BY <1>1, <1>2, <2>1 DEF Possible
<1>6. CASE age[i] # 0
  BY <1>1, <1>2, <1>3, <1>4, <1>6 DEF WaitOf, Possible
<1>7. QED
  BY <1>5, <1>6

\* No entry is passed over by more batches than it takes to go round the table.
THEOREM NoneStarved == Spec => [](WaitInv /\ NoEntryStarved)
<1> USE InfoTableAssumption
<1>1. TypeOK /\ WaitInv => NoEntryStarved
  BY WaitIsPossible DEF NoEntryStarved
<1>2. Init => WaitInv
  BY DEF Init, WaitInv, Entries
<1>3. TypeOK /\ WaitInv /\ [Next]_vars => WaitInv'
  <2> SUFFICES ASSUME TypeOK, WaitInv, [Next]_vars PROVE WaitInv'
    OBVIOUS
  <2>1. CASE Parse
    <3>1. PICK last \in memo..(N - 1) :
            /\ EndsAt(flag, memo, last)
            /\ flag' = Unflag(flag, Taken(flag, memo, last))
            /\ memo' = NextMemo(last)
            /\ age' = [i \in Entries |-> IF flag'[i] = Newest THEN Older(age[i]) ELSE 0]
      BY <2>1 DEF Parse
    <3>2. /\ memo \in Int /\ 0 <= memo /\ memo <= last /\ last \in Int /\ last <= N - 1
          /\ N \in Int /\ Max \in Int /\ Max - 1 >= 1
          /\ (memo <= N - 2 \/ memo = 0)
      BY DEF TypeOK, WaitInv, Entries
    <3>3. memo' <= N - 2 \/ memo' = 0
      BY <3>1, <3>2 DEF NextMemo
    <3>4. ASSUME NEW i \in Entries PROVE WaitOf(i)'
      <4>1. i \in Int /\ 0 <= i /\ i <= N - 1 /\ age[i] \in Nat
        BY DEF TypeOK, Entries
      <4>2. CASE flag'[i] # Newest
        <5>1. age'[i] = 0
          BY <3>1, <4>2
        <5>2. age'[i] * (Max - 1) = 0 /\ memo' \in Int
          BY <3>1, <3>2, <5>1 DEF NextMemo
        <5>3. CASE i < memo'
          BY <4>1, <5>2, <5>3 DEF WaitOf
        <5>4. CASE ~(i < memo')
          BY <5>1, <5>4 DEF WaitOf
        <5>5. QED
          BY <5>3, <5>4
      <4>3. CASE flag'[i] = Newest
        <5>1. age'[i] = age[i] + 1
          BY <3>1, <4>3, WaitIsPossible DEF Older
        <5>2. i \notin Taken(flag, memo, last) /\ flag[i] = Newest
          BY <3>1, <4>3 DEF Unflag, Newest, NotNewest
        <5>3. i < memo \/ i > last
          BY <3>2, <4>1, <5>2 DEF Taken
        <5>4. /\ age'[i] * (Max - 1) = age[i] * (Max - 1) + (Max - 1)
              /\ (age'[i] - 1) * (Max - 1) = age[i] * (Max - 1)
              /\ (age[i] - 1) * (Max - 1) = age[i] * (Max - 1) - (Max - 1)
              /\ age[i] * (Max - 1) \in Int
          <6>1. /\ (age[i] + 1) * (Max - 1) = age[i] * (Max - 1) + (Max - 1)
                /\ (age[i] - 1) * (Max - 1) = age[i] * (Max - 1) - (Max - 1)
                /\ age[i] * (Max - 1) \in Int
            BY <3>2, <4>1
          <6>2. age'[i] - 1 = age[i]
            BY <4>1, <5>1
          <6>3. QED
            BY <5>1, <6>1, <6>2
        <5>5. WaitOf(i)
          BY DEF WaitInv, WaitOf
        <5>6. last = N - 1 \/ last >= memo + (Max - 1)
          BY <3>1, FullBatchMoves DEF EndsAt, TypeOK
        <5>7. CASE i < memo /\ last = N - 1
          <6>1. memo' = 0
            BY <3>1, <5>7 DEF NextMemo
          <6>2. age[i] * (Max - 1) <= memo - (i + 1)
            BY <5>5, <5>7 DEF WaitOf
          <6>3. QED
            BY <3>2, <4>1, <5>4, <5>7, <6>1, <6>2 DEF WaitOf
        <5>8. CASE i < memo /\ last # N - 1
          <6>1. memo' = last /\ last >= memo + (Max - 1)
            BY <3>1, <5>6, <5>8 DEF NextMemo
          <6>2. age[i] * (Max - 1) <= memo - (i + 1)
            BY <5>5, <5>8 DEF WaitOf
          <6>3. QED
            BY <3>2, <4>1, <5>4, <5>8, <6>1, <6>2 DEF WaitOf
        <5>9. CASE i > last
          <6>1. memo' = last /\ last >= memo + (Max - 1) /\ ~(i < memo)
            BY <3>1, <3>2, <4>1, <5>6, <5>9 DEF NextMemo
          <6>2. CASE age[i] = 0
            <7>1. age[i] * (Max - 1) = 0
              BY <3>2, <6>2
            <7>2. QED
              BY <3>2, <4>1, <5>4, <5>9, <6>1, <7>1 DEF WaitOf
          <6>3. CASE age[i] # 0
            BY <3>2, <4>1, <5>4, <5>5, <5>9, <6>1, <6>3 DEF WaitOf
          <6>4. QED
            BY <6>2, <6>3
        <5>10. QED
          BY <5>3, <5>7, <5>8, <5>9
      <4>4. QED
        BY <4>2, <4>3
    <3>5. QED
      BY <3>3, <3>4 DEF WaitInv, WaitOf
  <2>2. CASE Restart
    BY <2>2 DEF Restart, WaitInv, Entries
  <2>3. ASSUME NEW i \in Entries, Update(i) PROVE WaitInv'
    BY <2>3 DEF Update, WaitInv
  <2>4. CASE UNCHANGED vars
    BY <2>4 DEF vars, WaitInv
  <2>5. QED
    BY <2>1, <2>2, <2>3, <2>4 DEF Next
<1>4. QED
  BY <1>1, <1>2, <1>3, TypeCorrect, PTL DEF Spec
=============================================================================
