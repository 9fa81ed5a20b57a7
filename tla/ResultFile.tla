----------------------------- MODULE ResultFile -----------------------------
(***************************************************************************)
(* Writing the table of listening results to the result file               *)
(* (info_manager.c, write_communication_info_array_to_json).               *)
(*                                                                         *)
(* On the node of the center interface every test thread writes the whole  *)
(* table at the end of its packages, so many write in the same round.      *)
(* The table lock is given up between opening the file (which truncates    *)
(* it), making the text, and marking the entries and writing; the file     *)
(* lock is tried only after the file has been opened.  `flock' is called   *)
(* with F_SETLK, whose value is that of LOCK_EX | LOCK_NB; the second such *)
(* call unlocks nothing, so the lock lasts until close.                    *)
(***************************************************************************)
EXTENDS Integers, FiniteSets

CONSTANTS
    Entries,
    Writers,      \* test threads of the node
    Nobody,       \* holder of a free file lock
    Wide,         \* versions of an entry whose text is longer than the others'
    MaxVersion,   \* bound: updates of an entry
    MaxRestarts,  \* bound: restarts of the process
    MaxFaults     \* bound: calls of write that fail

ASSUME ResultFileAssumption ==
    /\ IsFiniteSet(Entries) /\ Entries # {}
    /\ Nobody \notin Writers
    /\ Wide \subseteq Nat
    /\ {MaxVersion, MaxRestarts, MaxFaults} \subseteq Nat

VARIABLES
    val,        \* version of each entry of communication_info_array
    newest,     \* entries with if_newest_flag = 1
    file,       \* the result file: its length, and the text at its start
    lock,       \* the open file that holds the flock
    pc,         \* where each writer is
    text,       \* communication_info_array_json_str of each writer
    faults,
    restarts,
    \* history variables
    written,    \* last version of each entry handed to write
    meanwhile,  \* entries last changed while a writer had its text already
    done,       \* a write has ended well since the process started
    refused,    \* a writer did not get the file lock since the last write
    overlapped, \* another writer was busy when the file was last opened
    since       \* the table when the last writer opened the file

table   == <<val, newest>>
history == <<written, meanwhile, done, refused, overlapped, since>>
vars == <<table, file, lock, pc, text, faults, restarts, history>>

Versions == 0..MaxVersion
Tables   == [Entries -> Versions]
Fresh    == [i \in Entries |-> 0]

\* The text of a table is never empty, and longer for longer numbers.
Length(t) == 1 + Cardinality({i \in Entries : t[i] \in Wide})

Emptied == [size |-> 0, text |-> Fresh]

\* The whole file is one table, with nothing after it.
Whole == file.size = Length(file.text)

Init ==
    /\ val = Fresh /\ newest \in SUBSET Entries
    /\ file \in {Emptied, [size |-> Length(Fresh), text |-> Fresh]}
    /\ lock = Nobody
    /\ pc = [w \in Writers |-> "idle"] /\ text = [w \in Writers |-> Fresh]
    /\ faults = 0 /\ restarts = 0
    /\ written = Fresh /\ meanwhile = {}
    /\ done = FALSE /\ refused = FALSE /\ overlapped = FALSE
    /\ since = Fresh

Goto(w, label) == pc' = [pc EXCEPT ![w] = label]

SomeTextMade == \E w \in Writers : pc[w] \in {"parsed", "locked"}

\* Mutant: the flag is left to the synchronisation with other nodes.
UpdateUnflagged(i) ==
    /\ val[i] < MaxVersion
    /\ val' = [val EXCEPT ![i] = @ + 1]
    /\ meanwhile' = IF SomeTextMade THEN meanwhile \cup {i} ELSE meanwhile \ {i}
    /\ UNCHANGED <<newest, file, lock, pc, text, faults, restarts, written, done, refused,
                   overlapped, since>>

\* update_communication_info_array, or an entry of a batch from another node.
Update(i) ==
    /\ val[i] < MaxVersion
    /\ val' = [val EXCEPT ![i] = @ + 1]
    /\ newest' = newest \cup {i}
    /\ meanwhile' = IF SomeTextMade THEN meanwhile \cup {i} ELSE meanwhile \ {i}
    /\ UNCHANGED <<file, lock, pc, text, faults, restarts, written, done, refused, overlapped,
                   since>>

\* Mutant: the old content of the file is kept.
OpenUntruncated(w) ==
    /\ pc[w] = "idle"
    /\ Goto(w, "opened")
    /\ since' = val
    /\ overlapped' = \E v \in Writers \ {w} : pc[v] # "idle"
    /\ UNCHANGED <<table, file, lock, text, faults, restarts, written, meanwhile, done, refused>>

\* open(O_WRONLY | O_CREAT | O_TRUNC), under the table lock.
Open(w) ==
    /\ pc[w] = "idle"
    /\ file' = Emptied
    /\ Goto(w, "opened")
    /\ since' = val
    /\ overlapped' = \E v \in Writers \ {w} : pc[v] # "idle"
    /\ UNCHANGED <<table, lock, text, faults, restarts, written, meanwhile, done, refused>>

\* parse_communication_info_array_to_json, under the table lock again.
Parse(w) ==
    /\ pc[w] = "opened"
    /\ text' = [text EXCEPT ![w] = val]
    /\ Goto(w, "parsed")
    /\ UNCHANGED <<table, file, lock, faults, restarts, history>>

\* Mutant: a table without changed entries is not worth writing.
LockFileIfChanged(w) ==
    /\ pc[w] = "parsed"
    /\ lock = Nobody
    /\ lock' = IF newest = {} THEN Nobody ELSE w
    /\ Goto(w, IF newest = {} THEN "idle" ELSE "locked")
    /\ UNCHANGED <<table, file, text, faults, restarts, history>>

LockFile(w) ==
    /\ pc[w] = "parsed"
    /\ lock = Nobody
    /\ lock' = w
    /\ Goto(w, "locked")
    /\ UNCHANGED <<table, file, text, faults, restarts, history>>

\* "Failed to lock file": the writer closes the file it has emptied.
Refused(w) ==
    /\ pc[w] = "parsed"
    /\ lock # Nobody
    /\ refused' = TRUE
    /\ Goto(w, "idle")
    /\ UNCHANGED <<table, file, lock, text, faults, restarts, written, meanwhile, done,
                   overlapped, since>>

\* Under the table lock all entries are marked as written, and the text is
\* written at the start of the file.
Write(w) ==
    /\ pc[w] = "locked"
    /\ newest' = {}
    /\ file' = [size |-> IF file.size > Length(text[w]) THEN file.size ELSE Length(text[w]),
                text |-> text[w]]
    /\ written' = [i \in Entries |->
                      IF text[w][i] > written[i] THEN text[w][i] ELSE written[i]]
    /\ done' = TRUE /\ refused' = FALSE
    /\ Goto(w, "written")
    /\ UNCHANGED <<val, lock, text, faults, restarts, meanwhile, overlapped, since>>

\* "Failed to write to file": the entries are marked all the same.
WriteFails(w) ==
    /\ pc[w] = "locked"
    /\ faults < MaxFaults
    /\ faults' = faults + 1
    /\ newest' = {}
    /\ done' = FALSE
    /\ Goto(w, "written")
    /\ UNCHANGED <<val, file, lock, text, restarts, written, meanwhile, refused, overlapped, since>>

\* Mutant: the file is not closed.
CloseNot(w) ==
    /\ pc[w] = "written"
    /\ Goto(w, "idle")
    /\ UNCHANGED <<table, file, lock, text, faults, restarts, history>>

\* close gives the file lock back.
Close(w) ==
    /\ pc[w] = "written"
    /\ lock' = Nobody
    /\ Goto(w, "idle")
    /\ UNCHANGED <<table, file, text, faults, restarts, history>>

\* The supervisor kills the process wherever its threads are, and forks again
\* from a parent with a fresh table, whose flags nothing has initialised.
Restart ==
    /\ restarts < MaxRestarts
    /\ restarts' = restarts + 1
    /\ val' = Fresh /\ newest' \in SUBSET Entries
    /\ lock' = Nobody
    /\ pc' = [w \in Writers |-> "idle"] /\ text' = [w \in Writers |-> Fresh]
    /\ written' = Fresh /\ meanwhile' = {}
    /\ done' = FALSE /\ refused' = FALSE /\ overlapped' = FALSE
    /\ since' = Fresh
    /\ UNCHANGED <<file, faults>>

Next ==
    \/ \E i \in Entries : Update(i)
    \/ \E w \in Writers :
          \/ Open(w)
          \/ Parse(w)
          \/ LockFile(w)
          \/ Refused(w)
          \/ Write(w)
          \/ WriteFails(w)
          \/ Close(w)
    \/ Restart

Spec == Init /\ [][Next]_vars

-----------------------------------------------------------------------------
Files == [size : 0..(Cardinality(Entries) + 1), text : Tables]

\* Every variable has its type, and a writer has the file lock exactly while
\* it marks, writes and closes.
TypeOK ==
    /\ val \in Tables /\ newest \subseteq Entries
    /\ file \in Files /\ lock \in Writers \cup {Nobody}
    /\ pc \in [Writers -> {"idle", "opened", "parsed", "locked", "written"}]
    /\ \A w \in Writers : pc[w] \in {"locked", "written"} <=> lock = w
    /\ text \in [Writers -> Tables]
    /\ faults \in 0..MaxFaults /\ restarts \in 0..MaxRestarts
    /\ {written, since} \subseteq Tables /\ meanwhile \subseteq Entries
    /\ {done, refused, overlapped} \subseteq BOOLEAN

AllIdle == \A w \in Writers : pc[w] = "idle"

\* When the last writer had the file for itself, the file is one whole table
\* afterwards, at least as new as the table was when the file was opened, even
\* if writers have damaged the file before.
FileWholeAndFresh ==
    AllIdle /\ done /\ ~overlapped =>
        Whole /\ \A i \in Entries : file.text[i] >= since[i]

\* With several writers the file may be left empty only when one of them has
\* emptied it and then not got the lock.
EmptyOnlyIfRefused == AllIdle /\ done /\ file.size = 0 => refused

\* info_manager.c:837 marks the entries as "written and not the newest".  The
\* text is older than the marks: an entry may be marked although its value was
\* never written, but only when it changed after a writer had made its text.
MarkedUnwrittenChangedMeanwhile ==
    AllIdle /\ done =>
        \A i \in Entries \ newest : written[i] < val[i] => i \in meanwhile

\* info_manager.c:818 locks the file "to prevent concurrent writes": when no
\* thread is writing, the file is one whole table.
LockProtectsFile == AllIdle /\ done => Whole
=============================================================================
