-------------------------- MODULE ResultFileProofs --------------------------
(***************************************************************************)
(* Proofs about ResultFile for any table, any number of writers and any    *)
(* bounds.  Nothing is assumed of the order in which the writers get the   *)
(* two locks.                                                              *)
(***************************************************************************)
EXTENDS ResultFile, FiniteSetTheorems, TLAPS

\* The text of a table is one character at least, and at most one more for
\* each entry.
LEMMA Lengths ==
  ASSUME NEW t
  PROVE  Length(t) \in 1..(Cardinality(Entries) + 1)
<1> DEFINE wide == {i \in Entries : t[i] \in Wide}
<1>1. wide \in SUBSET Entries
  OBVIOUS
<1>2. Cardinality(wide) \in Nat /\ Cardinality(Entries) \in Nat
  BY <1>1, ResultFileAssumption, FS_Subset, FS_CardinalityType
<1>3. Cardinality(wide) <= Cardinality(Entries)
  BY <1>1, ResultFileAssumption, FS_Subset
<1> HIDE DEF wide
<1>4. Length(t) = 1 + Cardinality(wide)
  BY DEF Length, wide
<1>5. QED BY <1>2, <1>3, <1>4

LEMMA Sizes == Cardinality(Entries) \in Nat
  BY ResultFileAssumption, FS_CardinalityType

-----------------------------------------------------------------------------
(* Type correctness.                                                       *)

LEMMA FreshTable == Fresh \in Tables
  BY ResultFileAssumption DEF Fresh, Tables, Versions

LEMMA EmptiedFile == Emptied \in Files
  BY FreshTable, Sizes DEF Emptied, Files

LEMMA TypeInit == Init => TypeOK
<1> SUFFICES ASSUME Init PROVE TypeOK
  OBVIOUS
<1> USE ResultFileAssumption DEF Init
<1>1. file \in Files /\ lock \in Writers \cup {Nobody}
  BY EmptiedFile, FreshTable, Lengths, Sizes DEF Files
<1>2. val \in Tables /\ {written, since} \subseteq Tables
      /\ text \in [Writers -> Tables]
  BY FreshTable
<1>3. newest \subseteq Entries /\ meanwhile \subseteq Entries
      /\ faults \in 0..MaxFaults /\ restarts \in 0..MaxRestarts
  OBVIOUS
<1>4. pc \in [Writers -> {"idle", "opened", "parsed", "locked", "written"}]
      /\ \A w \in Writers : pc[w] \in {"locked", "written"} <=> lock = w
  OBVIOUS
<1>5. {done, refused, overlapped} \subseteq BOOLEAN
  OBVIOUS
<1>6. QED BY <1>1, <1>2, <1>3, <1>4, <1>5 DEF TypeOK

LEMMA TypeNext == TypeOK /\ [Next]_vars => TypeOK'
<1> SUFFICES ASSUME TypeOK, [Next]_vars PROVE TypeOK'
  OBVIOUS
<1> USE ResultFileAssumption DEF TypeOK, Goto
<1>1. ASSUME NEW i \in Entries, Update(i) PROVE TypeOK'
  BY <1>1 DEF Update, Tables, Versions
<1>2. ASSUME NEW w \in Writers, Open(w) PROVE TypeOK'
  BY <1>2, EmptiedFile DEF Open, table
<1>3. ASSUME NEW w \in Writers, Parse(w) PROVE TypeOK'
  BY <1>3 DEF Parse, table, history
<1>4. ASSUME NEW w \in Writers, LockFile(w) PROVE TypeOK'
  BY <1>4 DEF LockFile, table, history
<1>5. ASSUME NEW w \in Writers, Refused(w) PROVE TypeOK'
  BY <1>5 DEF Refused, table
<1>6. ASSUME NEW w \in Writers, Write(w) PROVE TypeOK'
  <2>1. file' \in Files
    BY <1>6, Lengths, Sizes DEF Write, Files
  <2>2. written' \in Tables
    BY <1>6 DEF Write, Tables
  <2>3. QED BY <1>6, <2>1, <2>2 DEF Write
<1>7. ASSUME NEW w \in Writers, WriteFails(w) PROVE TypeOK'
  <2>1. {done', refused', overlapped'} \subseteq BOOLEAN
    BY <1>7 DEF WriteFails
  <2>2. faults' \in 0..MaxFaults
    BY <1>7 DEF WriteFails
  <2>3. /\ pc' \in [Writers -> {"idle", "opened", "parsed", "locked", "written"}]
        /\ \A v \in Writers : pc'[v] \in {"locked", "written"} <=> lock' = v
    BY <1>7 DEF WriteFails
  <2>4. QED BY <1>7, <2>1, <2>2, <2>3 DEF WriteFails
<1>8. ASSUME NEW w \in Writers, Close(w) PROVE TypeOK'
  BY <1>8 DEF Close, table, history
<1>9. CASE Restart
  <2>1. {done', refused', overlapped'} \subseteq BOOLEAN
    BY <1>9 DEF Restart
  <2>2. restarts' \in 0..MaxRestarts
    BY <1>9 DEF Restart
  <2>3. /\ pc' \in [Writers -> {"idle", "opened", "parsed", "locked", "written"}]
        /\ \A v \in Writers : pc'[v] \in {"locked", "written"} <=> lock' = v
    BY <1>9 DEF Restart
  <2>4. /\ val' \in Tables /\ text' \in [Writers -> Tables]
        /\ {written', since'} \subseteq Tables
    BY <1>9, FreshTable DEF Restart
  <2>5. newest' \subseteq Entries /\ meanwhile' \subseteq Entries
    BY <1>9 DEF Restart
  <2>6. QED BY <1>9, <2>1, <2>2, <2>3, <2>4, <2>5 DEF Restart
<1>10. CASE UNCHANGED vars
  BY <1>10 DEF vars, table, history
<1>11. QED
  BY <1>1, <1>2, <1>3, <1>4, <1>5, <1>6, <1>7, <1>8, <1>9, <1>10 DEF Next

\* Every variable keeps its type, and a writer holds the file lock exactly
\* while it marks, writes and closes: in particular two writers never do so at
\* the same time, restarts included.
THEOREM TypeCorrect == Spec => []TypeOK
  BY TypeInit, TypeNext, PTL DEF Spec

-----------------------------------------------------------------------------
(***************************************************************************)
(* A writer that had the file for itself.                                  *)
(*                                                                         *)
(* The property speaks of the end only.  What makes it inductive is that a *)
(* writer whose opening met nobody is alone until another one opens the    *)
(* file, and what it has achieved at each of its steps.  The table lock    *)
(* plays no part: it is enough that entries only grow.                     *)
(***************************************************************************)
Grown == \A i \in Entries : val[i] >= since[i]

Alone ==
    ~overlapped =>
        \A v, w \in Writers : pc[v] # "idle" /\ pc[w] # "idle" => v = w

FreshFile == Whole /\ \A i \in Entries : file.text[i] >= since[i]

Progress ==
    ~overlapped =>
        \A w \in Writers :
            /\ pc[w] \in {"opened", "parsed", "locked"} => file.size = 0
            /\ pc[w] \in {"parsed", "locked", "written"} =>
                   \A i \in Entries : text[w][i] >= since[i]
            /\ pc[w] = "written" /\ done => FreshFile

OwnFileInv == Grown /\ Alone /\ Progress /\ FileWholeAndFresh

LEMMA OwnFileInit == Init => OwnFileInv
  BY ResultFileAssumption
  DEF Init, OwnFileInv, Grown, Alone, Progress, FileWholeAndFresh, Fresh

LEMMA OwnFileNext == TypeOK /\ TypeOK' /\ OwnFileInv /\ [Next]_vars => OwnFileInv'
<1> SUFFICES ASSUME TypeOK, TypeOK', OwnFileInv, [Next]_vars PROVE OwnFileInv'
  OBVIOUS
<1> USE ResultFileAssumption DEF Goto, AllIdle
<1>1. ASSUME NEW i \in Entries, Update(i) PROVE OwnFileInv'
  <2>1. Grown'
    BY <1>1 DEF Update, TypeOK, Tables, Versions, OwnFileInv, Grown
  <2>2. Alone'
    BY <1>1 DEF Update, OwnFileInv, Alone
  <2>3. FreshFile' <=> FreshFile
    BY <1>1 DEF Update, FreshFile, Whole, Length
  <2>4. Progress'
    BY <1>1, <2>3 DEF Update, OwnFileInv, Progress
  <2>5. FileWholeAndFresh'
    BY <1>1, <2>3 DEF Update, OwnFileInv, FileWholeAndFresh, FreshFile
  <2>6. QED BY <2>1, <2>2, <2>4, <2>5 DEF OwnFileInv
<1>2. ASSUME NEW w \in Writers, Open(w) PROVE OwnFileInv'
  <2>1. Grown'
    BY <1>2 DEF Open, table, TypeOK, Tables, Versions, Grown
  <2>2. pc' = [pc EXCEPT ![w] = "opened"] /\ file'.size = 0
    BY <1>2 DEF Open, Emptied
  <2>3. ~overlapped' => \A v \in Writers \ {w} : pc[v] = "idle"
    BY <1>2 DEF Open
  <2>4. Alone'
    BY <2>2, <2>3 DEF TypeOK, Alone
  <2>5. Progress'
    BY <2>2, <2>3 DEF TypeOK, Progress
  <2>6. FileWholeAndFresh'
    BY <2>2 DEF TypeOK, FileWholeAndFresh
  <2>7. QED BY <2>1, <2>4, <2>5, <2>6 DEF OwnFileInv
<1>3. ASSUME NEW w \in Writers, Parse(w) PROVE OwnFileInv'
  <2> USE <1>3 DEF Parse, table, history, TypeOK
  <2>1. Grown'
    BY DEF OwnFileInv, Grown
  <2>2. Alone'
    BY DEF OwnFileInv, Alone
  <2>3. FreshFile' <=> FreshFile
    BY DEF FreshFile, Whole, Length
  <2>4. Progress'
    BY <2>3 DEF OwnFileInv, Progress, Grown
  <2>5. FileWholeAndFresh'
    BY DEF FileWholeAndFresh
  <2>6. QED BY <2>1, <2>2, <2>4, <2>5 DEF OwnFileInv
<1>4. ASSUME NEW w \in Writers, LockFile(w) PROVE OwnFileInv'
  <2> USE <1>4 DEF LockFile, table, history, TypeOK
  <2>1. Grown'
    BY DEF OwnFileInv, Grown
  <2>2. Alone'
    BY DEF OwnFileInv, Alone
  <2>3. FreshFile' <=> FreshFile
    BY DEF FreshFile, Whole, Length
  <2>4. Progress'
    BY <2>3 DEF OwnFileInv, Progress
  <2>5. FileWholeAndFresh'
    BY DEF FileWholeAndFresh
  <2>6. QED BY <2>1, <2>2, <2>4, <2>5 DEF OwnFileInv
<1>5. ASSUME NEW w \in Writers, Refused(w) PROVE OwnFileInv'
  \* The one that holds the file lock is another writer: the two overlap.
  <2>1. overlapped
    BY <1>5 DEF Refused, TypeOK, OwnFileInv, Alone
  <2>2. overlapped'
    BY <1>5, <2>1 DEF Refused
  <2>3. Grown'
    BY <1>5 DEF Refused, table, OwnFileInv, Grown
  <2>4. QED
    BY <2>2, <2>3 DEF OwnFileInv, Alone, Progress, FileWholeAndFresh
<1>6. ASSUME NEW w \in Writers, Write(w) PROVE OwnFileInv'
  <2> USE <1>6 DEF Write, TypeOK
  <2>1. Grown'
    BY DEF OwnFileInv, Grown
  <2>2. Alone'
    BY DEF OwnFileInv, Alone
  <2>3. ~overlapped => FreshFile'
    <3> SUFFICES ASSUME ~overlapped PROVE FreshFile'
      OBVIOUS
    <3>1. file.size = 0 /\ \A i \in Entries : text[w][i] >= since[i]
      BY DEF OwnFileInv, Progress
    <3>2. Length(text[w]) \in 1..(Cardinality(Entries) + 1)
      BY Lengths
    <3>3. file' = [size |-> Length(text[w]), text |-> text[w]]
      BY <3>1, <3>2, Sizes
    <3>4. Whole'
      BY <3>3 DEF Whole, Length
    <3>5. QED BY <3>1, <3>3, <3>4 DEF FreshFile
  <2>4. Progress'
    BY <2>3 DEF OwnFileInv, Alone, Progress
  <2>5. FileWholeAndFresh'
    BY DEF FileWholeAndFresh
  <2>6. QED BY <2>1, <2>2, <2>4, <2>5 DEF OwnFileInv
<1>7. ASSUME NEW w \in Writers, WriteFails(w) PROVE OwnFileInv'
  <2> USE <1>7 DEF WriteFails, TypeOK
  <2>1. Grown'
    BY DEF OwnFileInv, Grown
  <2>2. Alone'
    BY DEF OwnFileInv, Alone
  <2>3. Progress'
    BY DEF OwnFileInv, Alone, Progress
  <2>4. FileWholeAndFresh'
    BY DEF FileWholeAndFresh
  <2>5. QED BY <2>1, <2>2, <2>3, <2>4 DEF OwnFileInv
<1>8. ASSUME NEW w \in Writers, Close(w) PROVE OwnFileInv'
  <2> USE <1>8 DEF Close, table, history, TypeOK
  <2>1. Grown'
    BY DEF OwnFileInv, Grown
  <2>2. Alone'
    BY DEF OwnFileInv, Alone
  <2>3. FreshFile' <=> FreshFile
    BY DEF FreshFile, Whole, Length
  <2>4. Progress'
    BY <2>3 DEF OwnFileInv, Progress
  <2>5. FileWholeAndFresh'
    BY <2>3 DEF OwnFileInv, Progress, FileWholeAndFresh, FreshFile
  <2>6. QED BY <2>1, <2>2, <2>4, <2>5 DEF OwnFileInv
<1>9. CASE Restart
  BY <1>9 DEF Restart, OwnFileInv, Grown, Alone, Progress, FileWholeAndFresh, Fresh
<1>10. CASE UNCHANGED vars
  BY <1>10 DEF vars, table, history, OwnFileInv, Grown, Alone, Progress,
               FileWholeAndFresh, FreshFile, Whole, Length
<1>11. QED
  BY <1>1, <1>2, <1>3, <1>4, <1>5, <1>6, <1>7, <1>8, <1>9, <1>10 DEF Next

\* A writer that had the file for itself leaves in it one whole table, at least
\* as new as the table was when it opened the file.
THEOREM OwnFileWhole == Spec => []FileWholeAndFresh
<1>1. OwnFileInv => FileWholeAndFresh
  BY DEF OwnFileInv
<1>2. QED BY <1>1, OwnFileInit, OwnFileNext, TypeCorrect, PTL DEF Spec

-----------------------------------------------------------------------------
(* A file that is left empty.                                              *)

\* After a write that went well the file is empty only because somebody has
\* opened it since, who is still to write or has been refused the lock.
EmptiedInv ==
    done /\ file.size = 0 /\ ~refused =>
        \E w \in Writers : pc[w] \in {"opened", "parsed", "locked"}

LEMMA EmptiedNext == TypeOK /\ EmptiedInv /\ [Next]_vars => EmptiedInv'
<1> SUFFICES ASSUME TypeOK, EmptiedInv, [Next]_vars PROVE EmptiedInv'
  OBVIOUS
<1> USE DEF TypeOK, EmptiedInv, Goto
<1>1. ASSUME NEW i \in Entries, Update(i) PROVE EmptiedInv'
  BY <1>1 DEF Update
<1>2. ASSUME NEW w \in Writers, Open(w) PROVE EmptiedInv'
  BY <1>2 DEF Open
<1>3. ASSUME NEW w \in Writers, Parse(w) PROVE EmptiedInv'
  BY <1>3 DEF Parse, table, history
<1>4. ASSUME NEW w \in Writers, LockFile(w) PROVE EmptiedInv'
  BY <1>4 DEF LockFile, table, history
<1>5. ASSUME NEW w \in Writers, Refused(w) PROVE EmptiedInv'
  BY <1>5 DEF Refused
<1>6. ASSUME NEW w \in Writers, Write(w) PROVE EmptiedInv'
  <2>1. Length(text[w]) >= 1 /\ Length(text[w]) \in Int
    BY Lengths, Sizes
  <2>2. file.size \in Int
    BY Sizes DEF Files
  <2>3. file'.size # 0
    BY <1>6, <2>1, <2>2 DEF Write
  <2>4. QED BY <2>3
<1>7. ASSUME NEW w \in Writers, WriteFails(w) PROVE EmptiedInv'
  BY <1>7 DEF WriteFails
<1>8. ASSUME NEW w \in Writers, Close(w) PROVE EmptiedInv'
  BY <1>8 DEF Close, table, history
<1>9. CASE Restart
  BY <1>9 DEF Restart
<1>10. CASE UNCHANGED vars
  BY <1>10 DEF vars, table, history
<1>11. QED
  BY <1>1, <1>2, <1>3, <1>4, <1>5, <1>6, <1>7, <1>8, <1>9, <1>10 DEF Next

\* Whatever the writers do to each other, the file they leave behind is empty
\* only when one of them has emptied it and not got the lock.
THEOREM EmptyMeansRefused == Spec => []EmptyOnlyIfRefused
<1>1. Init => EmptiedInv
  BY DEF Init, EmptiedInv
<1>2. EmptiedInv => EmptyOnlyIfRefused
  BY DEF EmptiedInv, EmptyOnlyIfRefused, AllIdle
<1>3. QED BY <1>1, <1>2, EmptiedNext, TypeCorrect, PTL DEF Spec

-----------------------------------------------------------------------------
(***************************************************************************)
(* Marked entries.                                                         *)
(*                                                                         *)
(* An entry that has not changed since some text was made has the same     *)
(* value in every text still to be written.  So the write that marks it    *)
(* also writes it, whichever writer comes first, and a write that fails is *)
(* made up for by the next one that does not.                              *)
(***************************************************************************)
TextsCurrent ==
    \A w \in Writers, i \in Entries \ meanwhile :
        pc[w] \in {"parsed", "locked"} => text[w][i] = val[i]

MarkedWritten ==
    done => \A i \in Entries \ (newest \cup meanwhile) : written[i] >= val[i]

MarksInv == TextsCurrent /\ MarkedWritten

LEMMA MarksNext == TypeOK /\ MarksInv /\ [Next]_vars => MarksInv'
<1> SUFFICES ASSUME TypeOK, MarksInv, [Next]_vars PROVE MarksInv'
  OBVIOUS
<1> USE DEF TypeOK, MarksInv, TextsCurrent, MarkedWritten, Goto, Tables, Versions
<1>1. ASSUME NEW i \in Entries, Update(i) PROVE MarksInv'
  <2>1. TextsCurrent'
    BY <1>1 DEF Update, SomeTextMade
  <2>2. MarkedWritten'
    BY <1>1 DEF Update
  <2>3. QED BY <2>1, <2>2
<1>2. ASSUME NEW w \in Writers, Open(w) PROVE MarksInv'
  BY <1>2 DEF Open, table
<1>3. ASSUME NEW w \in Writers, Parse(w) PROVE MarksInv'
  BY <1>3 DEF Parse, table, history
<1>4. ASSUME NEW w \in Writers, LockFile(w) PROVE MarksInv'
  BY <1>4 DEF LockFile, table, history
<1>5. ASSUME NEW w \in Writers, Refused(w) PROVE MarksInv'
  BY <1>5 DEF Refused, table
<1>6. ASSUME NEW w \in Writers, Write(w) PROVE MarksInv'
  <2>1. TextsCurrent'
    BY <1>6 DEF Write
  <2>2. ASSUME NEW i \in Entries \ meanwhile PROVE written'[i] >= val[i]
    <3>1. text[w][i] = val[i]
      BY <1>6 DEF Write
    <3>2. QED BY <1>6, <3>1 DEF Write
  <2>3. MarkedWritten'
    BY <1>6, <2>2 DEF Write
  <2>4. QED BY <2>1, <2>3
<1>7. ASSUME NEW w \in Writers, WriteFails(w) PROVE MarksInv'
  BY <1>7 DEF WriteFails
<1>8. ASSUME NEW w \in Writers, Close(w) PROVE MarksInv'
  BY <1>8 DEF Close, table, history
<1>9. CASE Restart
  BY <1>9 DEF Restart, Fresh
<1>10. CASE UNCHANGED vars
  BY <1>10 DEF vars, table, history
<1>11. QED
  BY <1>1, <1>2, <1>3, <1>4, <1>5, <1>6, <1>7, <1>8, <1>9, <1>10 DEF Next

\* An entry that is marked as written has been written, unless it changed when
\* a writer had its text already.
THEOREM MarkedIsWritten == Spec => []MarkedUnwrittenChangedMeanwhile
<1>1. Init => MarksInv
  BY DEF Init, MarksInv, TextsCurrent, MarkedWritten
<1>2. TypeOK /\ MarksInv => MarkedUnwrittenChangedMeanwhile
  BY DEF TypeOK, Tables, Versions, MarksInv, MarkedWritten,
         MarkedUnwrittenChangedMeanwhile
<1>3. QED BY <1>1, <1>2, MarksNext, TypeCorrect, PTL DEF Spec
=============================================================================
