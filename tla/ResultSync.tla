----------------------------- MODULE ResultSync -----------------------------
(***************************************************************************)
(* Bringing the listening results of a node to the center node             *)
(* (one_interface_operator.c, info_manager.c).                             *)
(*                                                                         *)
(* In every round the test thread of the interface linked with the center  *)
(* builds SYNC_PARTS_NUM batches of changed entries and sends each of them *)
(* SYNC_TIMES times.  Nothing is acknowledged.  A send that fails ends the *)
(* synchronisation of the round.  The center starts a thread per message;  *)
(* these take the mutex of the receiving interface in any order, and apply *)
(* their batch entry by entry.                                             *)
(*                                                                         *)
(* A result is represented by the number of its round.  One node and one   *)
(* link to the center are modelled: the entries of other nodes are         *)
(* disjoint, and the table lock keeps their updates apart.                 *)
(***************************************************************************)
EXTENDS InfoTable, Sequences, Functions

CONSTANTS
    Parts,         \* SYNC_PARTS_NUM
    Times,         \* SYNC_TIMES
    MaxRound,      \* bound: results published, all entries together
    MaxNet,        \* bound: messages under way
    MaxFaults      \* bound: faults of all kinds together

ASSUME ResultSyncAssumption ==
    /\ {Parts, Times} \subseteq Nat \ {0}
    /\ {MaxRound, MaxNet, MaxFaults} \subseteq Nat

VARIABLES
    val, flag, memo,   \* the node: communication_info_array, memoried
    flag0,             \* what malloc left in if_newest_flag
    pc, part, time,    \* the synchronising thread
    batch,             \* communication_info_array_json_str
    net,               \* messages on the way to the center or waiting there
    applying,          \* entries of the current batch still to be applied
    cval,              \* the table of the center
    faults,            \* how often each kind of fault has happened
    last,              \* history: last round published for each entry
    sent,              \* history: last result of an entry handed to the link
    failed,            \* history: last one whose first send failed
    applied            \* history: last round the center has ever applied

node    == <<val, flag, memo, last>>
thread  == <<pc, part, time, batch>>
center  == <<applying, cval, applied>>
vars == <<node, flag0, thread, net, center, faults, sent, failed>>

Blank   == 0     \* the entry as the node starts it: rx = 0
Missing == -1    \* the center has no such entry
Rounds  == 1..MaxRound
Values  == Rounds \cup {Blank}

\* A batch or the rest of one: entries with their values.
Batches  == UNION {[taken -> Values] : taken \in SUBSET Entries}
NoBatch  == [i \in {} |-> Blank]
Pairs(b) == {<<i, b[i]>> : i \in DOMAIN b}

FaultKinds == {"overtake", "loss", "failure", "restart", "recovery"}

Total(f) == FoldFunction(+, 0, f)

\* One more fault of this kind.
Fault(kind) ==
    /\ Total(faults) < MaxFaults
    /\ faults' = [faults EXCEPT ![kind] = @ + 1]

\* The results published so far.
Published == {p \in Entries \X Rounds : p[2] <= last[p[1]]}

\* The batches on their way to the table of the center.
Pending == {batch, applying} \cup {net[k] : k \in 1..Len(net)}

Init ==
    /\ val = [i \in Entries |-> Blank] /\ last = val
    /\ flag0 \in [Entries -> Flags] /\ flag = flag0
    /\ memo = 0
    /\ pc = "wait" /\ part = 0 /\ time = 0 /\ batch = NoBatch
    /\ net = <<>>
    /\ applying = NoBatch
    /\ cval = [i \in Entries |-> Missing] /\ applied = val
    /\ faults = [kind \in FaultKinds |-> 0]
    /\ sent = applied /\ failed = applied

-----------------------------------------------------------------------------
(* The node.                                                               *)

\* update_communication_info_array: deal_with_mnt publishes the next round.
Update(i) ==
    /\ Cardinality(Published) < MaxRound
    /\ last' = [last EXCEPT ![i] = @ + 1]
    /\ val' = [val EXCEPT ![i] = last[i] + 1]
    /\ flag' = [flag EXCEPT ![i] = Newest]
    /\ UNCHANGED <<memo, flag0, thread, net, center, faults, sent, failed>>

\* The packages of the round are sent; now the results are.
BeginSync ==
    /\ pc = "wait"
    /\ pc' = "parse" /\ part' = 1
    /\ UNCHANGED <<node, flag0, time, batch, net, center, faults, sent, failed>>

\* Mutant: all entries are unflagged, also those the batch has no room for.
ParseUnflagsAll ==
    /\ pc = "parse"
    /\ \E end \in memo..(N - 1) :
          /\ EndsAt(flag, memo, end)
          /\ batch' = [i \in Taken(flag, memo, end) |-> val[i]]
          /\ memo' = NextMemo(end)
    /\ flag' = [i \in Entries |-> NotNewest]
    /\ pc' = "send" /\ time' = 1
    /\ UNCHANGED <<val, last, flag0, part, net, center, faults, sent, failed>>

\* parse_newest_communication_infos_to_json, all under the table lock.
Parse ==
    /\ pc = "parse"
    /\ \E end \in memo..(N - 1) :
          /\ EndsAt(flag, memo, end)
          /\ batch' = [i \in Taken(flag, memo, end) |-> val[i]]
          /\ flag' = Unflag(flag, Taken(flag, memo, end))
          /\ memo' = NextMemo(end)
    /\ pc' = "send" /\ time' = 1
    /\ UNCHANGED <<val, last, flag0, part, net, center, faults, sent, failed>>

\* Mutant: one copy of every batch is held to be enough.
ProceedAfterOne ==
    \/ /\ part < Parts
       /\ pc' = "parse" /\ part' = part + 1 /\ time' = 0 /\ batch' = NoBatch
    \/ /\ part = Parts
       /\ pc' = "wait" /\ part' = 0 /\ time' = 0 /\ batch' = NoBatch

\* After a copy: the next copy, the next part, or the next round.
Proceed ==
    \/ /\ time < Times
       /\ time' = time + 1
       /\ UNCHANGED <<pc, part, batch>>
    \/ /\ time = Times /\ part < Parts
       /\ pc' = "parse" /\ part' = part + 1 /\ time' = 0 /\ batch' = NoBatch
    \/ /\ time = Times /\ part = Parts
       /\ pc' = "wait" /\ part' = 0 /\ time' = 0 /\ batch' = NoBatch

Send ==
    /\ pc = "send"
    /\ Len(net) < MaxNet
    /\ net' = Append(net, batch)
    /\ sent' = [i \in Entries |-> IF i \in DOMAIN batch THEN batch[i] ELSE sent[i]]
    /\ Proceed
    /\ UNCHANGED <<node, flag0, center, faults, failed>>

\* send_message returns _ERROR: "sync failed ... because of sending failing!"
SendFails ==
    /\ pc = "send"
    /\ Fault("failure")
    /\ failed' = [i \in Entries |->
                    IF time = 1 /\ i \in DOMAIN batch THEN batch[i] ELSE failed[i]]
    /\ pc' = "wait" /\ part' = 0 /\ time' = 0 /\ batch' = NoBatch
    /\ UNCHANGED <<node, flag0, net, center, sent>>

\* The supervisor of the node forks again from the parent's untouched table.
Restart ==
    /\ Fault("restart")
    /\ val' = [i \in Entries |-> Blank]
    /\ flag' = flag0 /\ memo' = 0
    /\ pc' = "wait" /\ part' = 0 /\ time' = 0 /\ batch' = NoBatch
    /\ UNCHANGED <<last, flag0, net, center, sent, failed>>

-----------------------------------------------------------------------------
(* The link and the center.                                                *)

Without(seq, k) == SubSeq(seq, 1, k - 1) \o SubSeq(seq, k + 1, Len(seq))

Lose(k) ==
    /\ Fault("loss")
    /\ net' = Without(net, k)
    /\ UNCHANGED <<node, flag0, thread, center, sent, failed>>

\* The thread of the first message gets the mutex of its interface, finds that
\* it is not a test message, and reads it as a batch.
Deliver ==
    /\ net # <<>> /\ applying = NoBatch
    /\ applying' = Head(net)
    /\ net' = Tail(net)
    /\ UNCHANGED <<node, flag0, thread, cval, applied, faults, sent, failed>>

\* The thread of a later message gets the mutex first.
Overtake(k) ==
    /\ k > 1 /\ applying = NoBatch
    /\ Fault("overtake")
    /\ applying' = net[k]
    /\ net' = Without(net, k)
    /\ UNCHANGED <<node, flag0, thread, cval, applied, sent, failed>>

\* Mutant: an entry is written at its index in the batch, not in the table.
ApplyMisplaced ==
    \E i \in DOMAIN applying :
        /\ \A j \in DOMAIN applying : i <= j
        /\ cval' = [cval EXCEPT ![0] = applying[i]]
        /\ applied' = [applied EXCEPT ![0] = IF @ > applying[i] THEN @ ELSE applying[i]]
        /\ applying' = [j \in DOMAIN applying \ {i} |-> applying[j]]
        /\ UNCHANGED <<node, flag0, thread, net, faults, sent, failed>>

\* One turn of the loop of update_communication_info_array_from_json; the table
\* lock is released after each entry.
ApplyEntry ==
    \E i \in DOMAIN applying :
        /\ \A j \in DOMAIN applying : i <= j
        /\ cval' = [cval EXCEPT ![i] = applying[i]]
        /\ applied' = [applied EXCEPT ![i] = IF @ > applying[i] THEN @ ELSE applying[i]]
        /\ applying' = [j \in DOMAIN applying \ {i} |-> applying[j]]
        /\ UNCHANGED <<node, flag0, thread, net, faults, sent, failed>>

\* The center restarts with a table of its own entries only.  The threads that
\* waited for the mutex are gone with their messages.
Recover ==
    /\ Fault("recovery")
    /\ cval' = [i \in Entries |-> Missing]
    /\ applying' = NoBatch
    /\ \E waited \in 0..Len(net) : net' = SubSeq(net, waited + 1, Len(net))
    /\ UNCHANGED <<node, flag0, thread, applied, sent, failed>>

Next ==
    \/ \E i \in Entries : Update(i)
    \/ BeginSync
    \/ Parse
    \/ Send
    \/ SendFails
    \/ Restart
    \/ Deliver
    \/ \E k \in 1..Len(net) : Lose(k) \/ Overtake(k)
    \/ ApplyEntry
    \/ Recover

Spec == Init /\ [][Next]_vars

-----------------------------------------------------------------------------
(* Correctness.                                                            *)

\* Every variable has its type; a batch never has more entries than fit in
\* one message.
TypeOK ==
    /\ val \in [Entries -> Values] /\ last \in [Entries -> Values]
    /\ {flag, flag0} \subseteq [Entries -> Flags] /\ memo \in Entries
    /\ pc \in {"wait", "parse", "send"} /\ part \in 0..Parts /\ time \in 0..Times
    /\ {batch, applying} \subseteq Batches /\ net \in Seq(Batches)
    /\ Cardinality(DOMAIN batch) <= Max
    /\ cval \in [Entries -> Values \cup {Missing}] /\ applied \in [Entries -> Values]
    /\ {sent, failed} \subseteq [Entries -> Values] /\ faults \in [FaultKinds -> Nat]

\* A batch on its way holds this result.
UnderWay(i, v) == \E b \in Pending : <<i, v>> \in Pairs(b)

\* Sending every batch SYNC_TIMES times makes up for fewer losses than that, or
\* for any number of failed sends: a result that is no longer flagged and no
\* longer on its way has arrived, unless not even the first copy of its batch
\* could be sent.  Losses and failed sends do not add up, for a failed send
\* gives up all the copies that were still to come.
LossesTolerated ==
    (/\ faults.recovery = 0
     /\ faults.loss = 0 \/ (faults.loss < Times /\ faults.failure = 0)) =>
        \A i \in Entries :
            \/ val[i] = Blank
            \/ flag[i] = Newest
            \/ UnderWay(i, val[i])
            \/ failed[i] = val[i]
            \/ applied[i] >= val[i]

\* The center shows what ResultChannel allows.
Channel == INSTANCE ResultChannel WITH
    shown <- cval,
    top <- applied,
    inOrder <- faults.overtake = 0
ChannelSpec == Channel!Spec

\* info_manager.c:1014 calls the flagged entries those that have not been
\* synchronised yet: an entry that is no longer flagged has been sent.
NotNewestMeansSynced ==
    pc = "wait" =>
        \A i \in Entries :
            flag[i] = NotNewest /\ val[i] # Blank => sent[i] = val[i]
=============================================================================
