----------------------------- MODULE HalfDuplex -----------------------------
(***************************************************************************)
(* A half-duplex RS485 link between two nodes, taken in turns by the clock *)
(* (status_chooser_lib.c, one_interface_operator.c, firmware.c,            *)
(* base/rs485_recv_send.c).                                                *)
(*                                                                         *)
(* Each node has one serial port, used by two entries of its table: the    *)
(* test entry, by which it sends in the rounds of its status chooser, and  *)
(* the listen entry, which receives in the rounds of the peer's chooser.   *)
(* Nothing on the wire says whose turn it is or where a frame begins: a    *)
(* frame is MAX_RS485_DATA_LENGTH bytes, and a receiver takes as many      *)
(* bytes as come before its timeout.                                       *)
(*                                                                         *)
(* A tick is SENDING_TIME_SPEC, the pause between two packages.  A frame   *)
(* takes less than a tick on the wire; it is cut in two pieces: the head   *)
(* holds the text with its terminating zero, the tail the padding of       *)
(* fillMessageToMaxMsgLen.                                                 *)
(***************************************************************************)
EXTENDS Integers, Sequences, FiniteSets

CONSTANTS
    Node,          \* the two ends of the link
    Chooser,       \* status chooser of the test entry of each node
    SyncNode,      \* nodes that synchronise their results over this link
    Packages,      \* PAKCAGES_NUM_ONE_TIME
    SyncSends,     \* SYNC_PARTS_NUM * SYNC_TIMES
    RoundLen,      \* ticks of a round
    Skew,          \* ticks by which the clocks of the nodes may differ
    MaxLate,       \* ticks a test thread may be delayed within a round
    Horizon,       \* bound: last tick
    MaxFaults      \* bound: bytes lost and processes restarted

(* All a test thread does in a round fits in the round, whatever the skew;  *)
(* with the values of configures.h it takes 26 of 50 ticks.                 *)
ASSUME HalfDuplexAssumption ==
    /\ IsFiniteSet(Node) /\ Cardinality(Node) = 2
    /\ Chooser \in [Node -> {"work_at_each_round", "only_work_at_odd_round",
                             "only_work_at_even_round"}]
    /\ SyncNode \subseteq Node
    /\ {Packages, SyncSends, Skew, MaxLate, MaxFaults} \subseteq Nat
    /\ RoundLen \in Nat /\ Horizon \in Nat /\ RoundLen <= Horizon
    /\ Packages + 2 + SyncSends + MaxLate + Skew < RoundLen

VARIABLES
    now,          \* time, in ticks
    ahead,        \* ticks the clock of each node is ahead of it
    status,       \* status of the test and the listen entry of each node
    round_array,  \* round_array of the test entry
    tester,       \* the test thread: where it is, when it wakes up, what is left
    late,         \* ticks it has been delayed in this round
    listener,     \* the listen thread: deadline of its call, pieces taken by it
    out,          \* pieces written to the port and not yet on the wire
    in,           \* pieces in the input buffer of the port
    faults,
    \* history variables
    sent,         \* test frames written by each node with each round label
    counted,      \* test frames recognised by each node, by round
    hurt,         \* rounds whose frames to a node a fault may have damaged
    since         \* round in which the process of a node ended, while it is down

vars == <<now, ahead, status, round_array, tester, late, listener, out, in,
          faults, sent, counted, hurt, since>>

Peer(n) == CHOOSE m \in Node : m # n

Status   == {"sending", "receiving", "sending_and_receiving", "closed"}
MaxRound == (Horizon + Skew) \div RoundLen
Rounds   == 0..MaxRound + 2

Text(r) == [part |-> "text", round |-> r]   \* round 0: a batch of results
Padding == [part |-> "padding", round |-> 0]
FrameOf(r) == <<Text(r), Padding>>
Pieces  == {Text(r) : r \in Rounds} \cup {Padding}

(***************************************************************************)
(* Rounds and status choosers.                                             *)
(***************************************************************************)
CurrentRound(n) == (now + ahead[n]) \div RoundLen

work_at_each_round(mode) ==
    IF mode = "test" THEN "sending" ELSE "receiving"

only_work_at_odd_round(mode, r) ==
    IF (mode = "test") = (r % 2 = 1) THEN "sending" ELSE "receiving"

only_work_at_even_round(mode, r) ==
    IF (mode = "test") = (r % 2 = 0) THEN "sending" ELSE "receiving"

status_chooser_transfer(chooser, mode, r) ==
    CASE chooser = "work_at_each_round"      -> work_at_each_round(mode)
      [] chooser = "only_work_at_odd_round"  -> only_work_at_odd_round(mode, r)
      [] chooser = "only_work_at_even_round" -> only_work_at_even_round(mode, r)
      [] OTHER -> "closed"

\* The listen entry was made from the link of the peer and has its chooser.
ChooserOf(n, mode) == IF mode = "test" THEN Chooser[n] ELSE Chooser[Peer(n)]

\* set_status for a serial port: no way to send and receive at once.
set_status(n, mode, s) ==
    IF s = "sending_and_receiving" THEN status
                                   ELSE [status EXCEPT ![n][mode] = s]

update_status_in_current_round(n, mode) ==
    status' = set_status(n, mode, status_chooser_transfer(
                                      ChooserOf(n, mode), mode, CurrentRound(n)))

(***************************************************************************)
(* Sending.                                                                *)
(***************************************************************************)
\* Mutant: a batch of results is sent out of turn.
RefusesWhenClosed(n) == status[n]["test"] = "closed"

RefusesToSend(n) == status[n]["test"] \in {"receiving", "closed"}

\* msg_generator_transfer, fillMessageToMaxMsgLen, send_packet_rs485
Write(n, r) ==
    /\ out'  = [out EXCEPT ![n] = @ \o FrameOf(r)]
    /\ sent' = IF r = 0 THEN sent ELSE [sent EXCEPT ![n][r] = @ + 1]

send_message(n, r) ==
    IF RefusesToSend(n) THEN UNCHANGED <<out, sent>> ELSE Write(n, r)

At(n, pc, wake, left) == tester' = [tester EXCEPT ![n] = [pc |-> pc, wake |-> wake, left |-> left]]
Idle(n) == At(n, "idle", 0, 0) /\ late' = [late EXCEPT ![n] = 0]
Awake(n, pc) == tester[n].pc = pc /\ now >= tester[n].wake

\* What a round begins with: the first one after the start is only noted.
\* Mutant: a round is begun again when its packages are sent.
NotEarlierRound(n) == CurrentRound(n) >= round_array[n]

NewRound(n)   == CurrentRound(n) > round_array[n]
SkipsRound(n) == round_array[n] = 0

BeginRound(n) ==
    /\ tester[n].pc = "idle"
    /\ NewRound(n)
    /\ round_array' = [round_array EXCEPT ![n] = CurrentRound(n)]
    /\ IF SkipsRound(n)
         THEN Idle(n) /\ UNCHANGED status
         ELSE /\ update_status_in_current_round(n, "test")
              \* the wait of 10^9 ns is refused by nanosleep
              /\ At(n, "package", now + 1, Packages) /\ UNCHANGED late
    /\ UNCHANGED <<now, ahead, listener, out, in, faults, sent, counted, hurt, since>>

SendPackage(n) ==
    /\ Awake(n, "package") /\ tester[n].left > 0
    /\ send_message(n, round_array[n])
    /\ IF tester[n].left = 1 THEN At(n, "pause", now + 2, 0)
                             ELSE At(n, "package", now + 1, tester[n].left - 1)
    /\ UNCHANGED <<now, ahead, status, round_array, late, listener, in, faults, counted, hurt, since>>

EndRound(n) ==
    /\ Awake(n, "pause")
    /\ IF n \in SyncNode /\ SyncSends > 0
         THEN At(n, "sync", now, SyncSends) /\ UNCHANGED late
         ELSE Idle(n)
    /\ UNCHANGED <<now, ahead, status, round_array, listener, out, in, faults, sent, counted, hurt, since>>

\* A batch is cut off at the length of a frame; a refused send ends the turn.
Sync(n) ==
    /\ Awake(n, "sync")
    /\ send_message(n, 0)
    /\ IF RefusesToSend(n) \/ tester[n].left = 1
         THEN Idle(n)
         ELSE At(n, "sync", now + 1, tester[n].left - 1) /\ UNCHANGED late
    /\ UNCHANGED <<now, ahead, status, round_array, listener, in, faults, counted, hurt, since>>

(***************************************************************************)
(* Receiving.                                                              *)
(***************************************************************************)
NotReading == [reading |-> FALSE, deadline |-> 0, got |-> <<>>]

\* receive_message returns at once unless the status lets it receive.
MayReceive(n) == status'[n]["listen"] \notin {"sending", "closed"}

BeginCall(n) ==
    /\ since[n] = 0 /\ ~listener[n].reading
    /\ update_status_in_current_round(n, "listen")
    /\ listener' = IF MayReceive(n)
                     THEN [listener EXCEPT ![n] = [reading  |-> TRUE,
                                                   deadline |-> now + RoundLen,
                                                   got      |-> <<>>]]
                     ELSE listener
    /\ <<status, listener>>' # <<status, listener>>
    /\ UNCHANGED <<now, ahead, round_array, tester, late, out, in, faults, sent, counted, hurt, since>>

\* Mutant: what is received is not compared with the text of the round.
RecognisesAnyText(n, msg) == msg[1].part = "text"

\* deal_with_mnt compares the text, up to its zero, with that of its own round.
Recognised(n, msg) == msg[1] = Text(CurrentRound(n))

Deal(n, msg) ==
    /\ listener' = [listener EXCEPT ![n] = NotReading]
    /\ counted'  = IF Recognised(n, msg)
                     THEN [counted EXCEPT ![n][CurrentRound(n)] = @ + 1] ELSE counted

\* select reports data as long as there is some; a full frame ends the call.
ReadPiece(n) ==
    /\ listener[n].reading /\ in[n] # <<>>
    /\ LET got == Append(listener[n].got, in[n][1])
       IN IF Len(got) = 2
            THEN Deal(n, got)
            ELSE /\ listener' = [listener EXCEPT ![n].got = got]
                 /\ UNCHANGED counted
    /\ in' = [in EXCEPT ![n] = Tail(@)]
    /\ UNCHANGED <<now, ahead, status, round_array, tester, late, out, faults, sent, hurt, since>>

\* The timeout counts the whole call, because Linux leaves in it what remains.
\* Mutant: the timeout is renewed when bytes arrive.
TimedOutIdle(n) == now >= listener[n].deadline /\ listener[n].got = <<>>

TimedOut(n) == now >= listener[n].deadline

Timeout(n) ==
    /\ listener[n].reading /\ in[n] = <<>>
    /\ TimedOut(n)
    /\ IF listener[n].got = <<>>
         THEN listener' = [listener EXCEPT ![n] = NotReading] /\ UNCHANGED counted
         ELSE Deal(n, listener[n].got)
    /\ UNCHANGED <<now, ahead, status, round_array, tester, late, out, in, faults, sent, hurt, since>>

(***************************************************************************)
(* The wire, faults and time.                                              *)
(***************************************************************************)
Shift(n) ==
    /\ out[n] # <<>>
    /\ out' = [out EXCEPT ![n] = Tail(@)]
    /\ UNCHANGED <<now, ahead, status, round_array, tester, late, listener, sent, counted, since>>

Transmit(n) ==
    /\ Shift(n)
    /\ in' = [in EXCEPT ![Peer(n)] = Append(@, out[n][1])]
    /\ UNCHANGED <<faults, hurt>>

Hurts(n, rounds) == hurt' = [hurt EXCEPT ![n] = @ \cup rounds]

\* A byte of the piece is lost, which is all the same for what follows it.
LoseByte(n) ==
    /\ faults < MaxFaults /\ faults' = faults + 1
    /\ Shift(n)
    /\ Hurts(Peer(n), {CurrentRound(n)})
    /\ UNCHANGED in

Crash(n) ==
    /\ since[n] = 0 /\ faults < MaxFaults /\ faults' = faults + 1
    /\ since' = [since EXCEPT ![n] = CurrentRound(n)]
    /\ At(n, "down", 0, 0) /\ late' = [late EXCEPT ![n] = 0]
    /\ listener' = [listener EXCEPT ![n] = NotReading]
    /\ UNCHANGED <<now, ahead, status, round_array, out, in, sent, counted, hurt>>

(* The next process: the parent's memory again, and open_port, whose       *)
(* tcflush discards what is in both buffers of the port.  The first call   *)
(* may begin at the very end of a round and end in the next round of the   *)
(* peer.                                                                   *)
Start(n) ==
    /\ since[n] # 0
    /\ since' = [since EXCEPT ![n] = 0]
    /\ round_array' = [round_array EXCEPT ![n] = 0]
    /\ status' = [status EXCEPT ![n] = [test |-> "receiving", listen |-> "receiving"]]
    /\ Idle(n)
    /\ in'  = [in EXCEPT ![n] = <<>>]
    /\ out' = [out EXCEPT ![n] = <<>>]
    /\ hurt' = [m \in Node |-> hurt[m] \cup
                  IF m = n THEN since[n]..CurrentRound(n) + 2
                  ELSE IF out[n] # <<>> THEN {CurrentRound(n)} ELSE {}]
    /\ UNCHANGED <<now, ahead, listener, faults, sent, counted>>

(* Threads run at once, but for test threads, which may be late.           *)
Due(n) == \/ tester[n].pc = "idle" /\ NewRound(n)
          \/ tester[n].pc \in {"package", "pause", "sync"} /\ now >= tester[n].wake

Polling(n) == since[n] = 0 /\ ~listener[n].reading
Busy(n) ==
    \/ out[n] # <<>>
    \/ listener[n].reading /\ (in[n] # <<>> \/ TimedOut(n))
    \/ Polling(n) /\ status_chooser_transfer(ChooserOf(n, "listen"), "listen", CurrentRound(n))
                      \in {"receiving", "sending_and_receiving"}

Tick ==
    /\ now < Horizon
    /\ \A n \in Node : ~Busy(n) /\ (Due(n) => late[n] < MaxLate)
    /\ now'  = now + 1
    /\ late' = [n \in Node |-> IF Due(n) THEN late[n] + 1 ELSE late[n]]
    /\ UNCHANGED <<ahead, status, round_array, tester, listener, out, in, faults,
                   sent, counted, hurt, since>>

Init ==
    /\ now = RoundLen
    /\ ahead \in [Node -> 0..Skew]
    /\ status = [n \in Node |-> [test |-> "receiving", listen |-> "receiving"]]
    /\ round_array = [n \in Node |-> 0]
    /\ tester = [n \in Node |-> [pc |-> "idle", wake |-> 0, left |-> 0]]
    /\ late = [n \in Node |-> 0]
    /\ listener = [n \in Node |-> NotReading]
    /\ out = [n \in Node |-> <<>>] /\ in = [n \in Node |-> <<>>]
    /\ faults = 0
    /\ sent = [n \in Node |-> [r \in Rounds |-> 0]]
    /\ counted = [n \in Node |-> [r \in Rounds |-> 0]]
    /\ hurt = [n \in Node |-> {}]
    /\ since = [n \in Node |-> 0]

TestThread(n)   == BeginRound(n) \/ SendPackage(n) \/ EndRound(n) \/ Sync(n)
ListenThread(n) == BeginCall(n) \/ ReadPiece(n) \/ Timeout(n)

Next ==
    \/ Tick
    \/ \E n \in Node : TestThread(n) \/ ListenThread(n) \/ Transmit(n)
                      \/ LoseByte(n) \/ Crash(n) \/ Start(n)

Spec == Init /\ [][Next]_vars

-----------------------------------------------------------------------------
(* Types of the variables; a test thread never has more left than it       *)
(* started with, and a call never holds a whole frame.                     *)
TypeOK ==
    /\ now \in RoundLen..Horizon /\ ahead \in [Node -> 0..Skew]
    /\ status \in [Node -> [{"test", "listen"} -> Status]]
    /\ round_array \in [Node -> Rounds]
    /\ tester \in [Node -> [pc   : {"idle", "package", "pause", "sync", "down"},
                            wake : 0..Horizon + 2, left : 0..Packages + SyncSends]]
    /\ late \in [Node -> 0..MaxLate]
    /\ \A n \in Node : /\ listener[n].reading \in BOOLEAN
                       /\ listener[n].deadline \in 0..Horizon + RoundLen
                       /\ listener[n].got \in {<<>>} \cup {<<p>> : p \in Pieces}
    /\ faults \in 0..MaxFaults
    /\ \A n \in Node, r \in Rounds : counted[n][r] \in 0..Packages /\ sent[n][r] \in 0..Packages

(* The choosers, the clocks and the time a test thread needs keep the two  *)
(* ends from driving the wire at the same time, batches of results         *)
(* included, and restarts do not disturb that: there is nothing else to    *)
(* prevent it, because the direction of the port is never switched.        *)
NoCollision == Cardinality({n \in Node : out[n] # <<>>}) <= 1

(* Of the test frames of a round no more are counted than were sent in it: *)
(* what is left of an earlier frame, a batch of results or a frame that    *)
(* comes in the next round is not taken for one of them.                   *)
CountedWereSent ==
    \A n \in Node, r \in Rounds : counted[n][r] <= sent[Peer(n)][r]

(* Every test frame of a round that is over has been recognised in it,     *)
(* unless a byte was lost in that round or the receiver has been down in   *)
(* it or shortly before: one fault does not shift the frames of all later  *)
(* rounds, although a receiver never looks for the beginning of a frame.   *)
HarmConfined ==
    \A n \in Node : since[n] = 0 =>
        \A r \in 0..CurrentRound(n) - 1 :
            r \notin hurt[n] => counted[n][r] = sent[Peer(n)][r]
=============================================================================
