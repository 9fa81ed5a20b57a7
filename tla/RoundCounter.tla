---------------------------- MODULE RoundCounter ----------------------------
(***************************************************************************)
(* Counting the test messages of one round on the listening node           *)
(* (one_interface_operator.c).                                             *)
(*                                                                         *)
(* Time is cut into rounds of MAX_WAITING_TIME_IN_ONE_ROUND seconds since  *)
(* a begin time that all nodes share.  In every round the test thread of   *)
(* the peer node sends PAKCAGES_NUM_ONE_TIME messages on each link.  Every *)
(* message the listener receives gets a detached thread (firmware.c,       *)
(* deal_async) that runs deal_with_mnt: it reads the clock, takes the      *)
(* mutex of its interface, and counts the message, or publishes the count  *)
(* of the round before when the round has changed.                         *)
(*                                                                         *)
(* Messages of Ethernet and RS485 links carry their round; those of CAN    *)
(* links do not (msg_generator_lib.c), so a late CAN message is counted in *)
(* the round it is received in.                                            *)
(***************************************************************************)
EXTENDS Integers, FiniteSets

CONSTANTS
    Ifaces,        \* listened interfaces of this node, each with its sender
    CanIfaces,     \* those whose messages carry no round
    Threads,       \* slots of detached deal_async threads alive at a time
    NoThread,      \* owner of a free mutex
    Packages,      \* PAKCAGES_NUM_ONE_TIME
    Skew,          \* rounds by which the clocks of the nodes may differ
    MaxRound,      \* bound: last round of the horizon
    MaxRestarts    \* bound: restarts by the supervisors, both nodes together

ASSUME RoundCounterAssumption ==
    /\ CanIfaces \subseteq Ifaces
    /\ IsFiniteSet(Threads) /\ Threads # {} /\ NoThread \notin Threads
    /\ Packages \in Nat
    /\ Skew \in Nat \ {0}
    /\ MaxRound \in Nat \ {0}
    /\ MaxRestarts \in Nat

VARIABLES
    now,       \* round the clock of this node shows
    peer,      \* round the clock of the peer node shows
    txRound,   \* round_array[ind] of the test thread of the peer
    txLeft,    \* messages it still has to send in its round
    air,       \* messages under way, counted by interface and round label
    pc,        \* where each deal_async thread is
    job,       \* its interface, the label of its message, the round it read
    owner,     \* cnt_mutex_array: the thread holding the mutex
    cnt,       \* cnt_array
    round,     \* round_array of the listened interfaces
    restarts,
    \* history variables
    result,    \* arguments of the last update_communication_info_array
    counted,   \* messages recognised since the process started
    reported,  \* sum of the rx values published since the process started
    pubs,      \* how often each round was published, over all restarts
    sent       \* messages sent with each round label, over all restarts

vars == <<now, peer, txRound, txLeft, air, pc, job, owner, cnt, round,
          restarts, result, counted, reported, pubs, sent>>

tx      == <<txRound, txLeft, sent>>
records == <<cnt, round, result, counted, reported, pubs>>

Rounds   == 1..MaxRound
NoRound  == 0
NoResult == [round |-> NoRound, rx |-> 0]
Held     == {"held", "published"}
PCs      == {"idle", "started", "ready"} \cup Held

AllZero  == [i \in Ifaces |-> 0]
NoneYet  == [i \in Ifaces |-> [r \in Rounds |-> 0]]
\* round_array starts at 0 on both sides.
NoRounds == [i \in Ifaces |-> NoRound]

Init ==
    /\ now = 1 /\ peer = 1 /\ restarts = 0
    /\ txRound = NoRounds /\ txLeft = AllZero /\ sent = NoneYet
    /\ air = NoneYet
    /\ pc = [t \in Threads |-> "idle"]
    /\ job \in [Threads -> [iface : Ifaces, label : {1}, round : {NoRound}]]
    /\ owner = [i \in Ifaces |-> NoThread]
    /\ cnt = AllZero /\ round = NoRounds
    /\ result = [i \in Ifaces |-> NoResult]
    /\ counted = AllZero /\ reported = AllZero
    /\ pubs = NoneYet

-----------------------------------------------------------------------------
(* The clocks.                                                             *)

Tick ==
    /\ now < MaxRound
    /\ now + 1 <= peer + Skew
    /\ now' = now + 1
    /\ UNCHANGED <<peer, tx, air, pc, job, owner, records, restarts>>

PeerTick ==
    /\ peer < MaxRound
    /\ peer + 1 <= now + Skew
    /\ peer' = peer + 1
    /\ UNCHANGED <<now, tx, air, pc, job, owner, records, restarts>>

-----------------------------------------------------------------------------
(* The test thread of the peer: test_upon_one_interface_in_one_time.       *)

\* Mutant: a restarted test thread sends at once instead of skipping the round.
BeginTestUnskipped(i) ==
    /\ txLeft[i] = 0
    /\ peer > txRound[i]
    /\ txRound' = [txRound EXCEPT ![i] = peer]
    /\ txLeft' = [txLeft EXCEPT ![i] = Packages]
    /\ UNCHANGED <<now, peer, sent, air, pc, job, owner, records, restarts>>

\* Its loop notices a new round.  The first one after a start of the process
\* is only recorded; in every later one the messages are sent.
BeginTest(i) ==
    /\ txLeft[i] = 0
    /\ peer > txRound[i]
    /\ txRound' = [txRound EXCEPT ![i] = peer]
    /\ txLeft' = [txLeft EXCEPT ![i] = IF txRound[i] = NoRound THEN 0 ELSE Packages]
    /\ UNCHANGED <<now, peer, sent, air, pc, job, owner, records, restarts>>

\* Mutant: the sending loop runs once too often.
SendPackageOnceMore(i) ==
    /\ txLeft[i] >= 0 /\ txRound[i] # NoRound
    /\ txLeft' = [txLeft EXCEPT ![i] = @ - 1]
    /\ sent' = [sent EXCEPT ![i][txRound[i]] = @ + 1]
    /\ air' = [air EXCEPT ![i][txRound[i]] = @ + 1]
    /\ UNCHANGED <<now, peer, txRound, pc, job, owner, records, restarts>>

\* One turn of the sending loop.  The label is the round read at its start,
\* which the clock may have left behind.
SendPackage(i) ==
    /\ txLeft[i] > 0
    /\ txLeft' = [txLeft EXCEPT ![i] = @ - 1]
    /\ sent' = [sent EXCEPT ![i][txRound[i]] = @ + 1]
    /\ air' = [air EXCEPT ![i][txRound[i]] = @ + 1]
    /\ UNCHANGED <<now, peer, txRound, pc, job, owner, records, restarts>>

\* The link loses a message, or deal_async cannot be started for it.
Lose(i, l) ==
    /\ air[i][l] > 0
    /\ air' = [air EXCEPT ![i][l] = @ - 1]
    /\ UNCHANGED <<now, peer, tx, pc, job, owner, records, restarts>>

-----------------------------------------------------------------------------
(* The listening node: receive_message and deal_with_mnt.                  *)

\* receive_message gets a message and starts a detached thread for it.
Receive(i, l, t) ==
    /\ air[i][l] > 0
    /\ pc[t] = "idle"
    /\ air' = [air EXCEPT ![i][l] = @ - 1]
    /\ pc' = [pc EXCEPT ![t] = "started"]
    /\ job' = [job EXCEPT ![t] = [iface |-> i, label |-> l, round |-> NoRound]]
    /\ UNCHANGED <<now, peer, tx, owner, records, restarts>>

\* The round is read before the mutex is taken.
ReadClock(t) ==
    /\ pc[t] = "started"
    /\ job' = [job EXCEPT ![t].round = now]
    /\ pc' = [pc EXCEPT ![t] = "ready"]
    /\ UNCHANGED <<now, peer, tx, air, owner, records, restarts>>

\* Mutant: the mutex does not exclude.
LockAnyway(t) ==
    /\ pc[t] = "ready"
    /\ owner' = [owner EXCEPT ![job[t].iface] = t]
    /\ pc' = [pc EXCEPT ![t] = "held"]
    /\ UNCHANGED <<now, peer, tx, air, job, records, restarts>>

Lock(t) ==
    /\ pc[t] = "ready"
    /\ owner[job[t].iface] = NoThread
    /\ owner' = [owner EXCEPT ![job[t].iface] = t]
    /\ pc' = [pc EXCEPT ![t] = "held"]
    /\ UNCHANGED <<now, peer, tx, air, job, records, restarts>>

Unlock(t) ==
    /\ owner' = [owner EXCEPT ![job[t].iface] = NoThread]
    /\ pc' = [pc EXCEPT ![t] = "idle"]

\* Mutant: no message carries its round.
ExpectedWithoutRound(t) == job[t].label \in Rounds

\* strcmp(msg, expect_msg) == 0, where expect_msg is what the sender sends in
\* the round this thread has read.
Expected(t) == job[t].iface \in CanIfaces \/ job[t].label = job[t].round

\* Mutant: a thread with an old round closes the open one too.
RoundDiffers(t) == job[t].round # round[job[t].iface]

RoundChanged(t) == job[t].round > round[job[t].iface]

Recognise(i) == counted' = [counted EXCEPT ![i] = @ + 1]

\* Not the expected message (and no JSON result either): "msg is wrong!".
Reject(t) ==
    /\ pc[t] = "held" /\ ~Expected(t)
    /\ Unlock(t)
    /\ UNCHANGED <<now, peer, tx, air, job, records, restarts>>

\* Mutant: the early return forgets the mutex.
CountFirstLocked(t) ==
    LET i == job[t].iface IN
    /\ pc[t] = "held" /\ Expected(t)
    /\ round[i] = NoRound
    /\ cnt' = [cnt EXCEPT ![i] = 1]
    /\ round' = [round EXCEPT ![i] = job[t].round]
    /\ Recognise(i)
    /\ pc' = [pc EXCEPT ![t] = "idle"]
    /\ UNCHANGED <<now, peer, tx, air, job, owner, result, reported, pubs, restarts>>

\* The first message since the process started opens the first round.
CountFirst(t) ==
    LET i == job[t].iface IN
    /\ pc[t] = "held" /\ Expected(t)
    /\ round[i] = NoRound
    /\ cnt' = [cnt EXCEPT ![i] = 1]
    /\ round' = [round EXCEPT ![i] = job[t].round]
    /\ Recognise(i)
    /\ Unlock(t)
    /\ UNCHANGED <<now, peer, tx, air, job, result, reported, pubs, restarts>>

CountMore(t) ==
    LET i == job[t].iface IN
    /\ pc[t] = "held" /\ Expected(t)
    /\ round[i] # NoRound /\ ~RoundChanged(t)
    /\ cnt' = [cnt EXCEPT ![i] = @ + 1]
    /\ Recognise(i)
    /\ Unlock(t)
    /\ UNCHANGED <<now, peer, tx, air, job, round, result, reported, pubs, restarts>>

\* A message of a later round: the count of the round before is final.
Publish(t) ==
    LET i == job[t].iface IN
    /\ pc[t] = "held" /\ Expected(t)
    /\ round[i] # NoRound /\ RoundChanged(t)
    /\ result' = [result EXCEPT ![i] = [round |-> round[i], rx |-> cnt[i]]]
    /\ reported' = [reported EXCEPT ![i] = @ + cnt[i]]
    /\ pubs' = [pubs EXCEPT ![i][round[i]] = @ + 1]
    /\ pc' = [pc EXCEPT ![t] = "published"]
    /\ UNCHANGED <<now, peer, tx, air, job, owner, cnt, round, counted, restarts>>

\* Mutant: the new round starts without the message that opened it.
StartRoundAtZero(t) ==
    LET i == job[t].iface IN
    /\ pc[t] = "published"
    /\ cnt' = [cnt EXCEPT ![i] = 0]
    /\ round' = [round EXCEPT ![i] = job[t].round]
    /\ Recognise(i)
    /\ Unlock(t)
    /\ UNCHANGED <<now, peer, tx, air, job, result, reported, pubs, restarts>>

\* The message that closed the round is the first of the next one.
StartRound(t) ==
    LET i == job[t].iface IN
    /\ pc[t] = "published"
    /\ cnt' = [cnt EXCEPT ![i] = 1]
    /\ round' = [round EXCEPT ![i] = job[t].round]
    /\ Recognise(i)
    /\ Unlock(t)
    /\ UNCHANGED <<now, peer, tx, air, job, result, reported, pubs, restarts>>

-----------------------------------------------------------------------------
(* The supervisors kill and fork again.  The new child starts from the     *)
(* arrays the parent initialised before its first fork.                    *)

Restart ==
    /\ restarts < MaxRestarts
    /\ restarts' = restarts + 1
    /\ pc' = [t \in Threads |-> "idle"]
    /\ owner' = [i \in Ifaces |-> NoThread]
    /\ cnt' = AllZero /\ round' = NoRounds
    /\ result' = [i \in Ifaces |-> NoResult]
    /\ counted' = AllZero /\ reported' = AllZero
    /\ UNCHANGED <<now, peer, tx, air, job, pubs>>

PeerRestart ==
    /\ restarts < MaxRestarts
    /\ restarts' = restarts + 1
    /\ txRound' = NoRounds /\ txLeft' = AllZero
    /\ UNCHANGED <<now, peer, sent, air, pc, job, owner, records>>

-----------------------------------------------------------------------------

Deal(t) ==
    \/ ReadClock(t)
    \/ Lock(t)
    \/ Reject(t)
    \/ CountFirst(t)
    \/ CountMore(t)
    \/ Publish(t)
    \/ StartRound(t)

Next ==
    \/ Tick
    \/ PeerTick
    \/ Restart
    \/ PeerRestart
    \/ \E i \in Ifaces : BeginTest(i) \/ SendPackage(i)
    \/ \E i \in Ifaces, l \in Rounds :
          Lose(i, l) \/ \E t \in Threads : Receive(i, l, t)
    \/ \E t \in Threads : Deal(t)

Spec == Init /\ [][Next]_vars

\* A started thread is scheduled until it ends.  A mutex wait is fair here
\* because only finitely many messages of a round compete for it.  Nothing is
\* assumed of the link, of the clocks or of the restarts.
FairSpec == Spec /\ \A t \in Threads : WF_vars(Deal(t))

-----------------------------------------------------------------------------
(* Correctness.                                                            *)

ClockTypes ==
    /\ now \in Rounds /\ peer \in Rounds
    /\ restarts \in 0..MaxRestarts

TxTypes ==
    /\ txRound \in [Ifaces -> Rounds \cup {NoRound}]
    /\ txLeft \in [Ifaces -> 0..Packages]
    /\ sent \in [Ifaces -> [Rounds -> Nat]]
    /\ air \in [Ifaces -> [Rounds -> Nat]]

DealTypes ==
    /\ pc \in [Threads -> PCs]
    /\ job \in [Threads -> [iface : Ifaces, label : Rounds, round : Rounds \cup {NoRound}]]
    /\ owner \in [Ifaces -> Threads \cup {NoThread}]

RecordTypes ==
    /\ cnt \in [Ifaces -> Nat]
    /\ round \in [Ifaces -> Rounds \cup {NoRound}]
    /\ result \in [Ifaces -> [round : Rounds \cup {NoRound}, rx : Nat]]
    /\ counted \in [Ifaces -> Nat]
    /\ reported \in [Ifaces -> Nat]
    /\ pubs \in [Ifaces -> [Rounds -> Nat]]

\* Every variable has its type; in particular the sending loop never runs
\* below zero.
TypeOK == ClockTypes /\ TxTypes /\ DealTypes /\ RecordTypes

\* Some thread has published the open round of i but not yet started the next.
Publishing(i) == \E t \in Threads : pc[t] = "published" /\ job[t].iface = i

\* What the open round of i has counted and nobody has published.
OpenCount(i) == IF Publishing(i) THEN 0 ELSE cnt[i]

\* Every message deal_with_mnt recognises is counted exactly once: it is in a
\* published rx or in the count of the open round, whatever threads overlap.
NoCountLost == \A i \in Ifaces : reported[i] + OpenCount(i) = counted[i]

\* update_communication_info_array is called for rounds in strictly rising
\* order, no round twice, even across restarts of the listening process and
\* with threads that read the clock rounds ago.
PublishedInOrder ==
    [][\A i \in Ifaces, r \in Rounds :
          pubs'[i][r] # pubs[i][r] =>
              \A q \in Rounds : pubs[i][q] > 0 => q < r]_vars

\* The test thread sends at most PAKCAGES_NUM_ONE_TIME messages for a round,
\* even when its process is restarted within the round: this is what the
\* skipped first round is for.
AtMostPackagesSent ==
    \A i \in Ifaces, r \in Rounds : sent[i][r] <= Packages

\* On a link whose messages carry their round, a result exceeds tx only by
\* messages of older rounds whose threads were waiting for the mutex when the
\* round changed: fewer than there are threads.
OvercountBoundedByThreads ==
    \A i \in Ifaces \ CanIfaces :
        result[i].rx < Packages + Cardinality(Threads)

\* What makes the properties above inductive.  A thread in its critical
\* section owns the mutex of its interface.
MutexInv ==
    \A t \in Threads : pc[t] \in Held => owner[job[t].iface] = t

\* Nothing is counted while no round is open.
FreshInv == \A i \in Ifaces : round[i] = NoRound => cnt[i] = 0

\* Rounds are read from a clock that only moves on.
ClockInv ==
    /\ \A i \in Ifaces : round[i] <= now /\ txRound[i] <= peer
    /\ \A t \in Threads : pc[t] \in {"ready"} \cup Held =>
          job[t].round \in Rounds /\ job[t].round <= now

\* The open round lies after every published one, except between the
\* publication of a round and the start of the next; so does every round a
\* thread has read while no round is open.
PublishedPast == \A i \in Ifaces, r \in Rounds : pubs[i][r] > 0 => r < now

OpenAfterPublished ==
    \A i \in Ifaces, r \in Rounds :
        round[i] # NoRound /\ pubs[i][r] > 0 =>
            \/ r < round[i]
            \/ r = round[i] /\ Publishing(i)

ReadAfterPublished ==
    \A t \in Threads, r \in Rounds :
        /\ pc[t] \in {"ready"} \cup Held
        /\ round[job[t].iface] = NoRound
        /\ pubs[job[t].iface][r] > 0
        => r < job[t].round

PublisherIsLater ==
    \A t \in Threads :
        pc[t] = "published" => round[job[t].iface] # NoRound /\ RoundChanged(t)

PublicationInv ==
    PublishedPast /\ OpenAfterPublished /\ ReadAfterPublished /\ PublisherIsLater

\* Messages of a round are sent only while the test thread is in it, and
\* what it has sent and what it has left add up.
SendingInv ==
    \A i \in Ifaces :
        /\ txLeft[i] > 0 => txRound[i] # NoRound
        /\ txRound[i] # NoRound => sent[i][txRound[i]] + txLeft[i] <= Packages
        /\ \A r \in Rounds : sent[i][r] > 0 =>
              r <= peer /\ (txRound[i] # NoRound => r <= txRound[i])

\* When a message of a later round waits for the mutex, the count of the open
\* round is published, unless the process is restarted first.
ClosedRoundIsPublished ==
    \A i \in Ifaces, r \in Rounds :
        (/\ round[i] = r
         /\ \E t \in Threads :
              /\ pc[t] = "ready" /\ job[t].iface = i
              /\ Expected(t) /\ RoundChanged(t))
        ~> (pubs[i][r] > 0 \/ round[i] = NoRound)
=============================================================================
