-------------------------- MODULE HalfDuplexProofs --------------------------
(***************************************************************************)
(* Proofs about HalfDuplex for any numbers of packages and of batches, any *)
(* length of a round and any skew and delay that leave room in it, any     *)
(* horizon and any number of faults.                                       *)
(***************************************************************************)
EXTENDS HalfDuplex, FiniteSetTheorems, SequenceTheorems, TLAPS

(* No two ends take their turn in the same round: what a configuration     *)
(* with a half-duplex link must say of the two choosers.                   *)
Alternating == {Chooser[n] : n \in Node} = {"only_work_at_odd_round", "only_work_at_even_round"}

HasTurn(n, r) == (Chooser[n] = "only_work_at_odd_round") = (r % 2 = 1)

Clock(n)  == now + ahead[n]
Begins(r) == r * RoundLen

TestThreads == [pc   : {"idle", "package", "pause", "sync", "down"},
                wake : 0..Horizon + 2, left : 0..Packages + SyncSends]
Heads       == {<<>>} \cup {<<p>> : p \in Pieces}
Calls       == [reading : BOOLEAN, deadline : 0..Horizon + RoundLen, got : Heads]
Entries     == [{"test", "listen"} -> Status]

TesterTypes ==
    /\ tester \in [Node -> TestThreads]
    /\ \A n \in Node : tester[n].pc = "sync" => tester[n].left > 0

(* Types, those of the buffers and of the history variables included, but  *)
(* not yet the bound on the counts.                                        *)
TypeInv ==
    /\ now \in RoundLen..Horizon /\ ahead \in [Node -> 0..Skew]
    /\ status \in [Node -> Entries]
    /\ round_array \in [Node -> Rounds]
    /\ TesterTypes
    /\ late \in [Node -> 0..MaxLate]
    /\ listener \in [Node -> Calls]
    /\ out \in [Node -> Seq(Pieces)] /\ in \in [Node -> Seq(Pieces)]
    /\ faults \in 0..MaxFaults
    /\ since \in [Node -> Rounds]

(* A test thread that sleeps until its wake, or has been due since then,   *)
(* does its next step no later than k ticks after the round began and the  *)
(* ticks it was delayed.                                                   *)
Within(n, k) ==
    /\ tester[n].wake + ahead[n] <= Begins(round_array[n]) + k + late[n]
    /\ Clock(n) <= Begins(round_array[n]) + k + late[n]

Schedule(n) ==
    /\ tester[n].pc = "package" => /\ tester[n].left <= Packages
                                   /\ Within(n, 1 + Packages - tester[n].left)
    /\ tester[n].pc = "pause"   => Within(n, 2 + Packages)
    /\ tester[n].pc = "sync"    => /\ tester[n].left <= SyncSends
                                   /\ Within(n, 2 + Packages + SyncSends - tester[n].left)

(* A test thread that rests begins the next round on time, after its first *)
(* one; in a round its status is that of its chooser for this round.       *)
OnTime(n) ==
    tester[n].pc = "idle" /\ round_array[n] # 0
        => Clock(n) <= Begins(round_array[n] + 1) + late[n]

InRound(n) ==
    tester[n].pc \in {"package", "pause", "sync"} =>
        /\ Begins(round_array[n]) <= Clock(n)
        /\ round_array[n] # 0
        /\ status[n]["test"] = IF HasTurn(n, round_array[n]) THEN "sending" ELSE "receiving"

(* What is on its way to the wire was written in the turn of the node, and *)
(* the wire takes it within the round by the clock of either node.         *)
OutInTurn(n) ==
    out[n] # <<>> => /\ HasTurn(n, round_array[n])
                     /\ Begins(round_array[n]) <= Clock(n)
                     /\ Clock(n) + Skew < Begins(round_array[n] + 1)

NodeInv(n) == Schedule(n) /\ OnTime(n) /\ InRound(n) /\ OutInTurn(n)
TurnInv == \A n \in Node : NodeInv(n)

-----------------------------------------------------------------------------
(***************************************************************************)
(* The constants, and the arithmetic of rounds.                            *)
(***************************************************************************)
LEMMA Constants ==
    /\ RoundLen \in Nat /\ RoundLen > 0 /\ Horizon \in Nat /\ RoundLen <= Horizon
    /\ Packages \in Nat /\ SyncSends \in Nat /\ Skew \in Nat /\ MaxLate \in Nat
    /\ MaxFaults \in Nat
    /\ Packages + 2 + SyncSends + MaxLate + Skew < RoundLen
BY HalfDuplexAssumption

LEMMA BeginsNext ==
  ASSUME NEW r \in Nat
  PROVE  Begins(r) \in Nat /\ Begins(r + 1) = Begins(r) + RoundLen
BY Constants DEF Begins

LEMMA BeginsLater ==
  ASSUME NEW r \in Nat, NEW s \in Nat, r < s
  PROVE  Begins(r + 1) <= Begins(s)
<1>1. PICK d \in Nat : s = r + 1 + d
  BY s - (r + 1) \in Nat
<1>2. Begins(s) = Begins(r + 1) + d * RoundLen
  BY <1>1, Constants DEF Begins
<1>3. d * RoundLen \in Nat BY Constants
<1>4. QED BY <1>2, <1>3, BeginsNext

LEMMA Division ==
  ASSUME NEW x \in Nat
  PROVE  /\ x \div RoundLen \in Nat
         /\ Begins(x \div RoundLen) <= x
         /\ x < Begins(x \div RoundLen + 1)
BY Constants DEF Begins

LEMMA DivisionIs ==
  ASSUME NEW x \in Nat, NEW r \in Nat, Begins(r) <= x, x < Begins(r + 1)
  PROVE  x \div RoundLen = r
<1> DEFINE q == x \div RoundLen
<1>1. q \in Nat /\ Begins(q) <= x /\ x < Begins(q + 1) BY Division
<1>2. CASE q < r
  BY <1>1, <1>2, BeginsLater, BeginsNext
<1>3. CASE r < q
  BY <1>1, <1>3, BeginsLater, BeginsNext
<1>4. QED BY <1>1, <1>2, <1>3

LEMMA DivisionMonotone ==
  ASSUME NEW x \in Nat
  PROVE  x \div RoundLen <= (x + 1) \div RoundLen
<1> DEFINE q == x \div RoundLen
           p == (x + 1) \div RoundLen
<1>1. q \in Nat /\ Begins(q) <= x /\ Begins(q) \in Nat BY Division, BeginsNext
<1>2. p \in Nat /\ x + 1 < Begins(p + 1) /\ Begins(p + 1) \in Nat
  <2>1. x + 1 \in Nat OBVIOUS
  <2>2. p \in Nat /\ x + 1 < Begins(p + 1) BY <2>1, Division
  <2>3. QED BY <2>2, BeginsNext
<1>3. CASE p < q BY <1>1, <1>2, <1>3, BeginsLater
<1>4. QED BY <1>1, <1>2, <1>3

LEMMA MaxRoundType == /\ MaxRound \in Nat /\ 0 \in Rounds
                      /\ Horizon + Skew < Begins(MaxRound + 1)
<1>1. Horizon + Skew \in Nat BY Constants
<1>2. QED BY <1>1, Division DEF MaxRound, Rounds

LEMMA RoundsOfClock ==
  ASSUME now \in RoundLen..Horizon, NEW n \in Node, ahead[n] \in 0..Skew
  PROVE  /\ Clock(n) \in Nat
         /\ CurrentRound(n) \in 1..MaxRound
         /\ CurrentRound(n) \in Rounds /\ CurrentRound(n) # 0
         /\ Begins(CurrentRound(n)) <= Clock(n)
         /\ Clock(n) < Begins(CurrentRound(n) + 1)
<1> DEFINE q == CurrentRound(n)
<1>1. Clock(n) \in Nat /\ Clock(n) <= Horizon + Skew /\ RoundLen <= Clock(n)
  BY Constants DEF Clock
<1>2. q \in Nat /\ Begins(q) <= Clock(n) /\ Clock(n) < Begins(q + 1)
  BY <1>1, Division DEF CurrentRound, Clock
<1>3. MaxRound \in Nat /\ Horizon + Skew < Begins(MaxRound + 1)
  BY MaxRoundType
<1>4. q <= MaxRound
  <2> SUFFICES ASSUME MaxRound < q PROVE FALSE
    BY <1>2, <1>3
  <2>1. Begins(MaxRound + 1) <= Begins(q)
    BY <1>2, <1>3, BeginsLater
  <2>2. Begins(q) \in Nat /\ Begins(MaxRound + 1) \in Nat
    BY <1>2, <1>3, BeginsNext
  <2>3. QED BY <1>1, <1>2, <1>3, <2>1, <2>2, Constants
<1>5. q # 0
  <2>1. Begins(0 + 1) = RoundLen BY Constants DEF Begins
  <2>2. QED BY <1>1, <1>2, <2>1, Constants
<1>6. QED BY <1>1, <1>2, <1>3, <1>4, <1>5 DEF Rounds

LEMMA PeerOfNode ==
  ASSUME NEW n \in Node
  PROVE  /\ Peer(n) \in Node /\ Peer(n) # n
         /\ \A m \in Node : m # n => m = Peer(n)
         /\ Peer(Peer(n)) = n
<1>1. IsFiniteSet(Node) /\ Cardinality(Node) = 2 BY HalfDuplexAssumption
<1>2. \E m \in Node : m # n
  <2> SUFFICES ASSUME Node = {n} PROVE FALSE OBVIOUS
  <2>1. Cardinality({n}) = 1 BY FS_Singleton
  <2>2. QED BY <1>1, <2>1
<1>3. ASSUME NEW k \in Node PROVE \A l, m \in Node : l # k /\ m # k => l = m
  <2> SUFFICES ASSUME NEW l \in Node, NEW m \in Node, l # k, m # k, l # m PROVE FALSE
    OBVIOUS
  <2>1. IsFiniteSet({k}) /\ Cardinality({k}) = 1 BY FS_Singleton
  <2>2. IsFiniteSet({k} \cup {l}) /\ Cardinality({k} \cup {l}) = 2
    BY <2>1, FS_AddElement
  <2>3. Cardinality(({k} \cup {l}) \cup {m}) = 3
    BY <2>2, FS_AddElement
  <2>4. ({k} \cup {l}) \cup {m} \subseteq Node OBVIOUS
  <2>5. Cardinality(({k} \cup {l}) \cup {m}) <= 2
    BY <1>1, <2>4, FS_Subset
  <2>6. QED BY <2>3, <2>5
<1>4. Peer(n) \in Node /\ Peer(n) # n BY <1>2 DEF Peer
<1>5. \A m \in Node : m # n => m = Peer(n) BY <1>3, <1>4
<1>6. Peer(Peer(n)) \in Node /\ Peer(Peer(n)) # Peer(n)
  BY <1>4 DEF Peer
<1>7. Peer(Peer(n)) = n BY <1>3, <1>4, <1>6
<1>8. QED BY <1>4, <1>5, <1>7

\* What a status chooser returns, for either entry.
LEMMA ChoosersChoose ==
  ASSUME NEW n \in Node, NEW r \in Nat, NEW mode \in {"test", "listen"}
  PROVE  status_chooser_transfer(ChooserOf(n, mode), mode, r) \in {"sending", "receiving"}
<1>1. ChooserOf(n, mode) \in {"work_at_each_round", "only_work_at_odd_round",
                              "only_work_at_even_round"}
  BY HalfDuplexAssumption, PeerOfNode DEF ChooserOf
<1>2. QED
  BY <1>1 DEF status_chooser_transfer, work_at_each_round, only_work_at_odd_round,
              only_work_at_even_round

LEMMA TestChoice ==
  ASSUME Alternating, NEW n \in Node, NEW r \in Nat
  PROVE  status_chooser_transfer(ChooserOf(n, "test"), "test", r)
             = IF HasTurn(n, r) THEN "sending" ELSE "receiving"
<1>1. Chooser[n] \in {"only_work_at_odd_round", "only_work_at_even_round"}
  BY DEF Alternating
<1>2. r % 2 \in {0, 1} OBVIOUS
<1>3. CASE Chooser[n] = "only_work_at_odd_round"
  BY <1>2, <1>3 DEF HasTurn, ChooserOf, status_chooser_transfer, only_work_at_odd_round
<1>4. CASE Chooser[n] = "only_work_at_even_round"
  BY <1>2, <1>4 DEF HasTurn, ChooserOf, status_chooser_transfer, only_work_at_even_round
<1>5. QED BY <1>1, <1>3, <1>4

LEMMA TurnsAlternate ==
  ASSUME Alternating, NEW n \in Node, NEW m \in Node, n # m, NEW r \in Nat, HasTurn(n, r)
  PROVE  ~HasTurn(m, r)
<1>1. /\ Chooser[n] \in {"only_work_at_odd_round", "only_work_at_even_round"}
      /\ Chooser[m] \in {"only_work_at_odd_round", "only_work_at_even_round"}
  BY DEF Alternating
<1>2. Chooser[n] # Chooser[m]
  <2> SUFFICES ASSUME Chooser[n] = Chooser[m] PROVE FALSE OBVIOUS
  <2>1. \A k \in Node : k = n \/ k = m BY PeerOfNode
  <2>2. \A k \in Node : Chooser[k] = Chooser[n] BY <2>1
  <2>3. QED BY <2>2 DEF Alternating
<1>3. QED BY <1>1, <1>2 DEF HasTurn

-----------------------------------------------------------------------------
(***************************************************************************)
(* Types.                                                                  *)
(***************************************************************************)
LEMMA StatusUpdated ==
  ASSUME status \in [Node -> Entries], now \in RoundLen..Horizon,
         NEW n \in Node, ahead[n] \in 0..Skew, NEW mode \in {"test", "listen"},
         update_status_in_current_round(n, mode)
  PROVE  /\ status' \in [Node -> Entries]
         /\ status'[n][mode] = status_chooser_transfer(ChooserOf(n, mode), mode, CurrentRound(n))
         /\ \A m \in Node, k \in {"test", "listen"} :
                <<m, k>> # <<n, mode>> => status'[m][k] = status[m][k]
<1>1. PICK s \in {"sending", "receiving"} :
          s = status_chooser_transfer(ChooserOf(n, mode), mode, CurrentRound(n))
  BY ChoosersChoose, RoundsOfClock DEF Rounds
<1>2. status' = [status EXCEPT ![n][mode] = s]
  BY <1>1 DEF update_status_in_current_round, set_status
<1>3. s \in Status BY DEF Status
<1>4. QED BY <1>1, <1>2, <1>3 DEF Entries

LEMMA TesterMoved ==
  ASSUME TesterTypes, NEW n \in Node,
         NEW pc \in {"idle", "package", "pause", "sync", "down"},
         NEW wake \in 0..Horizon + 2, NEW left \in 0..Packages + SyncSends,
         pc = "sync" => left > 0,
         At(n, pc, wake, left)
  PROVE  /\ TesterTypes'
         /\ tester'[n].pc = pc /\ tester'[n].wake = wake /\ tester'[n].left = left
         /\ \A m \in Node : m # n => tester'[m] = tester[m]
<1>1. /\ tester' \in [Node -> TestThreads]
      /\ tester'[n].pc = pc /\ tester'[n].wake = wake /\ tester'[n].left = left
      /\ \A m \in Node : m # n => tester'[m] = tester[m]
  BY DEF At, TestThreads, TesterTypes
<1>2. ASSUME NEW m \in Node, tester'[m].pc = "sync" PROVE tester'[m].left > 0
  <2>1. CASE m = n BY <1>1, <1>2, <2>1
  <2>2. CASE m # n BY <1>1, <1>2, <2>2 DEF TesterTypes
  <2>3. QED BY <2>1, <2>2
<1>3. QED BY <1>1, <1>2 DEF TesterTypes

LEMMA Written ==
  ASSUME out \in [Node -> Seq(Pieces)], NEW n \in Node, NEW r \in Rounds, send_message(n, r)
  PROVE  /\ out' \in [Node -> Seq(Pieces)]
         /\ \A m \in Node : m # n => out'[m] = out[m]
<1>1. FrameOf(r) \in Seq(Pieces)
  BY DEF FrameOf, Pieces
<1>2. CASE RefusesToSend(n)
  BY <1>2 DEF send_message
<1>3. CASE ~RefusesToSend(n)
  <2>1. out' = [out EXCEPT ![n] = @ \o FrameOf(r)] BY <1>3 DEF send_message, Write
  <2>2. out[n] \o FrameOf(r) \in Seq(Pieces) BY <1>1
  <2>3. QED BY <2>1, <2>2
<1>4. QED BY <1>2, <1>3

LEMMA TestThreadTypes ==
  ASSUME TypeInv, NEW n \in Node, TestThread(n)
  PROVE  TypeInv'
<1>1. /\ 0 \in 0..Horizon + 2 /\ now \in 0..Horizon + 2 /\ now + 1 \in 0..Horizon + 2
      /\ now + 2 \in 0..Horizon + 2
      /\ 0 \in 0..Packages + SyncSends /\ Packages \in 0..Packages + SyncSends
      /\ SyncSends \in 0..Packages + SyncSends
      /\ 0 \in 0..MaxLate /\ 0 \in Rounds
  BY Constants, MaxRoundType DEF TypeInv
<1>2. CurrentRound(n) \in Rounds BY RoundsOfClock DEF TypeInv
<1>3. /\ TesterTypes /\ round_array[n] \in Rounds
      /\ tester[n].left \in 0..Packages + SyncSends
      /\ tester[n].pc = "sync" => tester[n].left > 0
  BY DEF TypeInv, TestThreads, TesterTypes
<1>4. CASE BeginRound(n)
  <2>1. round_array' \in [Node -> Rounds]
    BY <1>2, <1>4 DEF BeginRound, TypeInv
  <2>2. CASE SkipsRound(n)
    <3>1. At(n, "idle", 0, 0) /\ late' = [late EXCEPT ![n] = 0]
      BY <1>4, <2>2 DEF BeginRound, Idle
    <3>2. late' \in [Node -> 0..MaxLate]
      BY <1>1, <3>1 DEF TypeInv
    <3>3. TesterTypes' BY <1>1, <1>3, <3>1, TesterMoved
    <3>4. QED BY <1>4, <2>1, <2>2, <3>2, <3>3 DEF BeginRound, TypeInv
  <2>3. CASE ~SkipsRound(n)
    <3>1. At(n, "package", now + 1, Packages)
      BY <1>4, <2>3 DEF BeginRound
    <3>2. TesterTypes' BY <1>1, <1>3, <3>1, TesterMoved
    <3>3. status' \in [Node -> Entries]
      BY <1>4, <2>3, StatusUpdated DEF BeginRound, TypeInv
    <3>4. QED BY <1>4, <2>1, <2>3, <3>2, <3>3 DEF BeginRound, TypeInv
  <2>4. QED BY <2>2, <2>3
<1>5. CASE SendPackage(n)
  <2>1. out' \in [Node -> Seq(Pieces)]
    BY <1>3, <1>5, Written DEF SendPackage, TypeInv
  <2>2. tester[n].left - 1 \in 0..Packages + SyncSends
    BY <1>3, <1>5, Constants DEF SendPackage
  <2>3. At(n, "pause", now + 2, 0) \/ At(n, "package", now + 1, tester[n].left - 1)
    BY <1>5 DEF SendPackage
  <2>4. TesterTypes' BY <1>1, <1>3, <2>2, <2>3, TesterMoved
  <2>5. QED BY <1>5, <2>1, <2>4 DEF SendPackage, TypeInv
<1>6. CASE EndRound(n)
  <2>1. \/ SyncSends > 0 /\ At(n, "sync", now, SyncSends)
        \/ At(n, "idle", 0, 0)
    BY <1>6 DEF EndRound, Idle
  <2>2. TesterTypes' BY <1>1, <1>3, <2>1, TesterMoved
  <2>3. late' \in [Node -> 0..MaxLate]
    BY <1>1, <1>6 DEF EndRound, Idle, TypeInv
  <2>4. QED BY <1>6, <2>2, <2>3 DEF EndRound, TypeInv
<1>7. CASE Sync(n)
  <2>1. out' \in [Node -> Seq(Pieces)]
    BY <1>1, <1>7, Written DEF Sync, TypeInv
  <2>2. late' \in [Node -> 0..MaxLate]
    BY <1>1, <1>7 DEF Sync, Idle, TypeInv
  <2>3. tester[n].left > 0 BY <1>3, <1>7 DEF Sync, Awake
  <2>4. \/ At(n, "idle", 0, 0)
        \/ tester[n].left # 1 /\ At(n, "sync", now + 1, tester[n].left - 1)
    BY <1>7 DEF Sync, Idle
  <2>5. TesterTypes'
    <3>1. CASE At(n, "idle", 0, 0)
      BY <1>1, <1>3, <3>1, TesterMoved
    <3>2. CASE tester[n].left # 1 /\ At(n, "sync", now + 1, tester[n].left - 1)
      <4>1. tester[n].left - 1 \in 0..Packages + SyncSends /\ tester[n].left - 1 > 0
        BY <1>3, <2>3, <3>2, Constants
      <4>2. QED BY <1>1, <1>3, <3>2, <4>1, TesterMoved
    <3>3. QED BY <2>4, <3>1, <3>2
  <2>6. QED BY <1>7, <2>1, <2>2, <2>5 DEF Sync, TypeInv
<1>8. QED BY <1>4, <1>5, <1>6, <1>7 DEF TestThread

LEMMA ListenThreadTypes ==
  ASSUME TypeInv, NEW n \in Node, ListenThread(n)
  PROVE  TypeInv'
<1>1. /\ now + RoundLen \in 0..Horizon + RoundLen /\ 0 \in 0..Horizon + RoundLen
      /\ listener[n] \in Calls
  BY Constants DEF TypeInv
<1>2. CASE BeginCall(n)
  <2>1. status' \in [Node -> Entries]
    BY <1>2, StatusUpdated DEF BeginCall, TypeInv
  <2>2. [reading |-> TRUE, deadline |-> now + RoundLen, got |-> <<>>] \in Calls
    BY <1>1 DEF Calls, Heads
  <2>3. listener' \in [Node -> Calls]
    BY <1>2, <2>2 DEF BeginCall, TypeInv
  <2>4. QED BY <1>2, <2>1, <2>3 DEF BeginCall, TypeInv, TesterTypes
<1>3. NotReading \in Calls BY <1>1 DEF Calls, NotReading, Heads
<1>4. CASE ReadPiece(n)
  <2>1. in[n] \in Seq(Pieces) /\ in[n] # <<>> BY <1>4 DEF ReadPiece, TypeInv
  <2>2. in[n][1] \in Pieces /\ Tail(in[n]) \in Seq(Pieces) BY <2>1
  <2>3. in' \in [Node -> Seq(Pieces)] BY <1>4, <2>2 DEF ReadPiece, TypeInv
  <2>4. PICK got : got = Append(listener[n].got, in[n][1]) OBVIOUS
  <2>5. \/ listener' = [listener EXCEPT ![n] = NotReading]
        \/ Len(got) # 2 /\ listener' = [listener EXCEPT ![n].got = got]
    BY <1>4, <2>4 DEF ReadPiece, Deal
  <2>6. Len(got) # 2 => got \in Heads
    <3>1. CASE listener[n].got = <<>>
      BY <2>2, <2>4, <3>1 DEF Heads
    <3>2. CASE \E p \in Pieces : listener[n].got = <<p>>
      BY <2>2, <2>4, <3>2
    <3>3. QED BY <1>1, <3>1, <3>2 DEF Calls, Heads
  <2>7. Len(got) # 2 => [listener[n] EXCEPT !.got = got] \in Calls
    BY <1>1, <2>6 DEF Calls
  <2>8. listener' \in [Node -> Calls]
    BY <1>3, <2>5, <2>7 DEF TypeInv
  <2>9. QED BY <1>4, <2>3, <2>8 DEF ReadPiece, TypeInv, TesterTypes
<1>5. CASE Timeout(n)
  <2>1. listener' = [listener EXCEPT ![n] = NotReading]
    BY <1>5 DEF Timeout, Deal
  <2>2. listener' \in [Node -> Calls] BY <1>3, <2>1 DEF TypeInv
  <2>3. QED BY <1>5, <2>2 DEF Timeout, TypeInv, TesterTypes
<1>6. QED BY <1>2, <1>4, <1>5 DEF ListenThread

LEMMA EnvironmentTypes ==
  ASSUME TypeInv, NEW n \in Node, Transmit(n) \/ LoseByte(n) \/ Crash(n) \/ Start(n)
  PROVE  TypeInv'
<1>1. /\ 0 \in 0..Horizon + 2 /\ 0 \in 0..Packages + SyncSends /\ 0 \in 0..MaxLate
      /\ 0 \in Rounds /\ 0 \in 0..Horizon + RoundLen
  BY Constants, MaxRoundType
<1>2. CurrentRound(n) \in Rounds BY RoundsOfClock DEF TypeInv
<1>3. out[n] \in Seq(Pieces) BY DEF TypeInv
<1>4. CASE Transmit(n)
  <2>1. out[n] # <<>> BY <1>4 DEF Transmit, Shift
  <2>2. out[n][1] \in Pieces /\ Tail(out[n]) \in Seq(Pieces) BY <1>3, <2>1
  <2>3. Peer(n) \in Node BY PeerOfNode
  <2>4. out' \in [Node -> Seq(Pieces)]
    BY <1>4, <2>2 DEF Transmit, Shift, TypeInv
  <2>5. in' \in [Node -> Seq(Pieces)]
    BY <1>4, <2>2, <2>3 DEF Transmit, TypeInv
  <2>6. QED BY <1>4, <2>4, <2>5 DEF Transmit, Shift, TypeInv, TesterTypes
<1>5. CASE LoseByte(n)
  <2>1. Tail(out[n]) \in Seq(Pieces) BY <1>3, <1>5 DEF LoseByte, Shift
  <2>2. out' \in [Node -> Seq(Pieces)]
    BY <1>5, <2>1 DEF LoseByte, Shift, TypeInv
  <2>3. faults' \in 0..MaxFaults
    <3>1. faults \in 0..MaxFaults /\ faults < MaxFaults /\ faults' = faults + 1
      BY <1>5 DEF LoseByte, TypeInv
    <3>2. QED BY <3>1, Constants
  <2>4. QED BY <1>5, <2>2, <2>3 DEF LoseByte, Shift, TypeInv, TesterTypes
<1>6. CASE Crash(n)
  <2>1. faults' \in 0..MaxFaults BY <1>6, Constants DEF Crash, TypeInv
  <2>2. TesterTypes' BY <1>1, <1>6, TesterMoved DEF Crash, TypeInv
  <2>3. since' \in [Node -> Rounds] BY <1>2, <1>6 DEF Crash, TypeInv
  <2>4. late' \in [Node -> 0..MaxLate] BY <1>1, <1>6 DEF Crash, TypeInv
  <2>5. NotReading \in Calls BY <1>1 DEF Calls, NotReading, Heads
  <2>6. listener' \in [Node -> Calls] BY <1>6, <2>5 DEF Crash, TypeInv
  <2>7. QED BY <1>6, <2>1, <2>2, <2>3, <2>4, <2>6 DEF Crash, TypeInv
<1>7. CASE Start(n)
  <2>1. TesterTypes' BY <1>1, <1>7, TesterMoved DEF Start, Idle, TypeInv
  <2>2. since' \in [Node -> Rounds] /\ round_array' \in [Node -> Rounds]
    BY <1>1, <1>7 DEF Start, TypeInv
  <2>3. late' \in [Node -> 0..MaxLate] BY <1>1, <1>7 DEF Start, Idle, TypeInv
  <2>4. status' \in [Node -> Entries]
    BY <1>7 DEF Start, Entries, Status, TypeInv
  <2>5. in' \in [Node -> Seq(Pieces)] /\ out' \in [Node -> Seq(Pieces)]
    <3>1. <<>> \in Seq(Pieces) OBVIOUS
    <3>2. QED BY <1>7, <3>1 DEF Start, TypeInv
  <2>6. QED BY <1>7, <2>1, <2>2, <2>3, <2>4, <2>5 DEF Start, TypeInv
<1>8. QED BY <1>4, <1>5, <1>6, <1>7

LEMMA TickTypes == ASSUME TypeInv, Tick PROVE TypeInv'
<1>1. now' \in RoundLen..Horizon BY Constants DEF Tick, TypeInv
<1>2. late' \in [Node -> 0..MaxLate]
  <2>1. ASSUME NEW n \in Node PROVE late'[n] \in 0..MaxLate
    <3>1. late[n] \in 0..MaxLate /\ MaxLate \in Nat BY Constants DEF TypeInv
    <3>2. Due(n) => late[n] < MaxLate BY DEF Tick
    <3>3. late'[n] = IF Due(n) THEN late[n] + 1 ELSE late[n] BY DEF Tick
    <3>4. QED BY <3>1, <3>2, <3>3
  <2>2. QED BY <2>1 DEF Tick
<1>3. QED BY <1>1, <1>2 DEF Tick, TypeInv, TesterTypes

LEMMA TypesHold == Spec => []TypeInv
<1>1. Init => TypeInv
  <2> SUFFICES ASSUME Init PROVE TypeInv OBVIOUS
  <2>1. /\ 0 \in 0..Horizon + 2 /\ 0 \in 0..Packages + SyncSends /\ 0 \in 0..MaxLate
        /\ 0 \in Rounds /\ 0 \in 0..Horizon + RoundLen /\ 0 \in 0..MaxFaults
        /\ RoundLen \in RoundLen..Horizon /\ <<>> \in Seq(Pieces)
    BY Constants, MaxRoundType
  <2>2. TesterTypes BY <2>1 DEF Init, TesterTypes, TestThreads
  <2>3. status \in [Node -> Entries] BY DEF Init, Entries, Status
  <2>4. NotReading \in Calls BY <2>1 DEF Calls, NotReading, Heads
  <2>5. QED BY <2>1, <2>2, <2>3, <2>4 DEF Init, TypeInv
<1>2. TypeInv /\ [Next]_vars => TypeInv'
  <2> SUFFICES ASSUME TypeInv, [Next]_vars PROVE TypeInv' OBVIOUS
  <2>1. CASE Tick BY <2>1, TickTypes
  <2>2. ASSUME NEW n \in Node, TestThread(n) PROVE TypeInv' BY <2>2, TestThreadTypes
  <2>3. ASSUME NEW n \in Node, ListenThread(n) PROVE TypeInv' BY <2>3, ListenThreadTypes
  <2>4. ASSUME NEW n \in Node, Transmit(n) \/ LoseByte(n) \/ Crash(n) \/ Start(n)
        PROVE  TypeInv'
    BY <2>4, EnvironmentTypes
  <2>5. CASE UNCHANGED vars BY <2>5 DEF vars, TypeInv, TesterTypes
  <2>6. QED BY <2>1, <2>2, <2>3, <2>4, <2>5 DEF Next
<1>3. QED BY <1>1, <1>2, PTL DEF Spec

-----------------------------------------------------------------------------
(***************************************************************************)
(* Turns.                                                                  *)
(***************************************************************************)
\* The values the proofs below calculate with.
LEMMA Numbers ==
  ASSUME TypeInv, NEW n \in Node
  PROVE  /\ now \in Nat /\ ahead[n] \in Nat /\ ahead[n] <= Skew
         /\ Clock(n) \in Nat /\ Clock(n) = now + ahead[n]
         /\ round_array[n] \in Nat
         /\ Begins(round_array[n]) \in Nat
         /\ Begins(round_array[n] + 1) = Begins(round_array[n]) + RoundLen
         /\ tester[n].wake \in Nat /\ tester[n].left \in Nat
         /\ late[n] \in Nat /\ late[n] <= MaxLate
<1>1. now \in Nat /\ ahead[n] \in Nat /\ ahead[n] <= Skew /\ round_array[n] \in Nat
  BY Constants DEF TypeInv, Rounds
<1>2. tester[n] \in TestThreads BY DEF TypeInv, TesterTypes
<1>3. tester[n].wake \in Nat /\ tester[n].left \in Nat BY <1>2, Constants DEF TestThreads
<1>4. late[n] \in Nat /\ late[n] <= MaxLate BY Constants DEF TypeInv
<1>5. QED BY <1>1, <1>3, <1>4, BeginsNext DEF Clock

LEMMA Unmoved ==
  ASSUME NEW n \in Node, NodeInv(n), now' = now, ahead' = ahead,
         tester'[n] = tester[n], late'[n] = late[n], round_array'[n] = round_array[n],
         status'[n]["test"] = status[n]["test"], out[n] = <<>> => out'[n] = <<>>
  PROVE  NodeInv(n)'
BY DEF NodeInv, Schedule, Within, OnTime, InRound, OutInTurn, Clock

LEMMA InTurnStill ==
  ASSUME NEW n \in Node, OutInTurn(n), now' = now, ahead' = ahead,
         round_array'[n] = round_array[n], out'[n] = out[n]
  PROVE  OutInTurn(n)'
BY DEF OutInTurn, Clock

LEMMA SentInTurn ==
  ASSUME TypeInv, NEW n \in Node, NodeInv(n), NEW r \in Rounds, send_message(n, r),
         tester[n].pc \in {"package", "sync"}, Clock(n) + Skew < Begins(round_array[n] + 1),
         now' = now, ahead' = ahead, round_array' = round_array
  PROVE  OutInTurn(n)'
<1>1. CASE RefusesToSend(n)
  BY <1>1, InTurnStill DEF send_message, NodeInv
<1>2. CASE ~RefusesToSend(n)
  <2>1. HasTurn(n, round_array[n]) /\ Begins(round_array[n]) <= Clock(n)
    BY <1>2 DEF NodeInv, InRound, RefusesToSend
  <2>2. QED BY <2>1 DEF OutInTurn, Clock
<1>3. QED BY <1>1, <1>2

LEMMA BeginRoundTurn ==
  ASSUME TypeInv, Alternating, NEW n \in Node, NodeInv(n), BeginRound(n)
  PROVE  NodeInv(n)'
<1> DEFINE q == CurrentRound(n)
<1>1. /\ now' = now /\ ahead' = ahead /\ out' = out /\ q > round_array[n]
      /\ round_array'[n] = q /\ tester[n].pc = "idle"
  BY DEF BeginRound, NewRound, TypeInv
<1>2. /\ q \in Nat /\ q # 0 /\ Begins(q) <= Clock(n) /\ Clock(n) < Begins(q + 1)
      /\ Begins(q) \in Nat /\ Begins(q + 1) = Begins(q) + RoundLen
  <2>1. q \in 1..MaxRound /\ Begins(q) <= Clock(n) /\ Clock(n) < Begins(q + 1)
    BY RoundsOfClock DEF TypeInv
  <2>2. q \in Nat /\ q # 0 BY <2>1
  <2>3. QED BY <2>1, <2>2, BeginsNext
<1>3. Begins(round_array[n] + 1) <= Begins(q)
  BY <1>1, <1>2, BeginsLater, Numbers
<1>4. Clock(n)' = Clock(n) BY <1>1 DEF Clock
<1>5. out[n] = <<>>
  BY <1>2, <1>3, Numbers, Constants DEF NodeInv, OutInTurn
<1>6. OutInTurn(n)' BY <1>1, <1>5 DEF OutInTurn
<1>7. CASE SkipsRound(n)
  <2>1. At(n, "idle", 0, 0) /\ late' = [late EXCEPT ![n] = 0]
    BY <1>7 DEF BeginRound, Idle
  <2>2. tester'[n].pc = "idle" BY <2>1 DEF At, TypeInv, TesterTypes
  <2>3. late'[n] = 0 BY <2>1 DEF TypeInv
  <2>4. Clock(n) <= Begins(q + 1) + 0
    BY <1>2, Numbers, Constants
  <2>5. OnTime(n)' BY <1>1, <1>4, <2>3, <2>4 DEF OnTime
  <2>6. QED BY <1>6, <2>2, <2>5 DEF NodeInv, Schedule, InRound
<1>8. CASE ~SkipsRound(n)
  <2>1. /\ At(n, "package", now + 1, Packages) /\ late' = late
        /\ update_status_in_current_round(n, "test")
    BY <1>8 DEF BeginRound
  <2>2. tester'[n].pc = "package" /\ tester'[n].wake = now + 1 /\ tester'[n].left = Packages
    BY <2>1 DEF At, TypeInv, TesterTypes
  <2>3. Clock(n) <= Begins(round_array[n] + 1) + late[n]
    BY <1>1, <1>8 DEF NodeInv, OnTime, SkipsRound
  <2>4. Clock(n) <= Begins(q) + late[n]
    BY <1>2, <1>3, <2>3, Numbers, Constants
  <2>5. Within(n, 1 + Packages - Packages)'
    <3>1. Within(n, 1)' BY <1>1, <1>2, <1>4, <2>1, <2>2, <2>4, Numbers DEF Within
    <3>2. 1 + Packages - Packages = 1 BY Constants
    <3>3. QED BY <3>1, <3>2
  <2>6. Schedule(n)' BY <2>2, <2>5, Constants DEF Schedule
  <2>7. status'[n]["test"] = IF HasTurn(n, q) THEN "sending" ELSE "receiving"
    BY <2>1, <1>2, TestChoice, StatusUpdated DEF TypeInv
  <2>8. InRound(n)' BY <1>1, <1>2, <1>4, <2>7 DEF InRound
  <2>9. QED BY <1>6, <2>2, <2>6, <2>8 DEF NodeInv, OnTime
<1>9. QED BY <1>7, <1>8

LEMMA SendPackageTurn ==
  ASSUME TypeInv, NEW n \in Node, NodeInv(n), SendPackage(n)
  PROVE  NodeInv(n)'
<1>1. /\ now' = now /\ ahead' = ahead /\ round_array' = round_array /\ late' = late
      /\ status' = status /\ tester[n].pc = "package" /\ tester[n].left > 0
      /\ send_message(n, round_array[n])
      /\ \/ tester[n].left = 1 /\ At(n, "pause", now + 2, 0)
         \/ tester[n].left > 1 /\ At(n, "package", now + 1, tester[n].left - 1)
  BY Numbers DEF SendPackage, Awake
<1>2. /\ tester[n].left <= Packages
      /\ Clock(n) <= Begins(round_array[n]) + 1 + Packages - tester[n].left + late[n]
  BY <1>1, Numbers, Constants DEF NodeInv, Schedule, Within
<1>3. Clock(n) + Skew < Begins(round_array[n] + 1)
  BY <1>1, <1>2, Numbers, Constants
<1>4. round_array[n] \in Rounds BY DEF TypeInv
<1>5. OutInTurn(n)' BY <1>1, <1>3, <1>4, SentInTurn
<1>6. Clock(n)' = Clock(n) BY <1>1 DEF Clock
<1>7. CASE tester[n].left = 1 /\ At(n, "pause", now + 2, 0)
  <2>1. tester'[n].pc = "pause" /\ tester'[n].wake = now + 2
    BY <1>7 DEF At, TypeInv, TesterTypes
  <2>2. Within(n, 2 + Packages)'
    BY <1>1, <1>2, <1>6, <1>7, <2>1, Numbers, Constants DEF Within
  <2>3. QED BY <1>1, <1>5, <1>6, <2>1, <2>2 DEF NodeInv, Schedule, OnTime, InRound
<1>8. CASE tester[n].left > 1 /\ At(n, "package", now + 1, tester[n].left - 1)
  <2>1. /\ tester'[n].pc = "package" /\ tester'[n].wake = now + 1
        /\ tester'[n].left = tester[n].left - 1
    BY <1>8 DEF At, TypeInv, TesterTypes
  <2>2. /\ now + 1 + ahead[n] <= Begins(round_array[n])
                                    + (1 + Packages - (tester[n].left - 1)) + late[n]
        /\ Clock(n) <= Begins(round_array[n])
                            + (1 + Packages - (tester[n].left - 1)) + late[n]
        /\ tester[n].left - 1 <= Packages
    BY <1>2, Numbers, Constants
  <2>3. Schedule(n)'
    BY <1>1, <1>6, <2>1, <2>2 DEF Schedule, Within
  <2>4. QED BY <1>1, <1>5, <1>6, <2>1, <2>3 DEF NodeInv, OnTime, InRound
<1>9. QED BY <1>1, <1>7, <1>8

LEMMA EndRoundTurn ==
  ASSUME TypeInv, NEW n \in Node, NodeInv(n), EndRound(n)
  PROVE  NodeInv(n)'
<1>1. /\ now' = now /\ ahead' = ahead /\ round_array' = round_array
      /\ status' = status /\ out' = out /\ tester[n].pc = "pause"
      /\ \/ SyncSends > 0 /\ At(n, "sync", now, SyncSends) /\ late' = late
         \/ At(n, "idle", 0, 0) /\ late' = [late EXCEPT ![n] = 0]
  BY DEF EndRound, Awake, Idle
<1>2. Clock(n) <= Begins(round_array[n]) + 2 + Packages + late[n]
  BY <1>1, Numbers, Constants DEF NodeInv, Schedule, Within
<1>3. Clock(n)' = Clock(n) BY <1>1 DEF Clock
<1>4. OutInTurn(n)' BY <1>1, InTurnStill DEF NodeInv
<1>5. CASE SyncSends > 0 /\ At(n, "sync", now, SyncSends) /\ late' = late
  <2>1. tester'[n].pc = "sync" /\ tester'[n].wake = now /\ tester'[n].left = SyncSends
    BY <1>5 DEF At, TypeInv, TesterTypes
  <2>2. Within(n, 2 + Packages)'
    BY <1>1, <1>2, <1>3, <1>5, <2>1, Numbers, Constants DEF Within
  <2>3. Schedule(n)' BY <2>1, <2>2, Constants DEF Schedule, Within
  <2>4. QED BY <1>1, <1>3, <1>4, <2>1, <2>3 DEF NodeInv, OnTime, InRound
<1>6. CASE At(n, "idle", 0, 0) /\ late' = [late EXCEPT ![n] = 0]
  <2>1. tester'[n].pc = "idle" /\ late'[n] = 0
    BY <1>6 DEF At, TypeInv, TesterTypes
  <2>2. Clock(n) <= Begins(round_array[n] + 1) + 0
    BY <1>2, Numbers, Constants
  <2>3. OnTime(n)' BY <1>1, <1>3, <2>1, <2>2 DEF OnTime
  <2>4. QED BY <1>4, <2>1, <2>3 DEF NodeInv, Schedule, InRound
<1>7. QED BY <1>1, <1>5, <1>6

LEMMA SyncTurn ==
  ASSUME TypeInv, NEW n \in Node, NodeInv(n), Sync(n)
  PROVE  NodeInv(n)'
<1>1. /\ now' = now /\ ahead' = ahead /\ round_array' = round_array
      /\ status' = status /\ tester[n].pc = "sync" /\ tester[n].left > 0
      /\ send_message(n, 0)
      /\ \/ At(n, "idle", 0, 0) /\ late' = [late EXCEPT ![n] = 0]
         \/ tester[n].left > 1 /\ At(n, "sync", now + 1, tester[n].left - 1) /\ late' = late
  <2>1. tester[n].left > 0 BY DEF Sync, Awake, TypeInv, TesterTypes
  <2>2. QED BY <2>1, Numbers DEF Sync, Awake, Idle
<1>2. /\ tester[n].left <= SyncSends
      /\ Clock(n) <= Begins(round_array[n]) + 2 + Packages + SyncSends - tester[n].left + late[n]
  BY <1>1, Numbers, Constants DEF NodeInv, Schedule, Within
<1>3. Clock(n) + Skew < Begins(round_array[n] + 1)
  BY <1>1, <1>2, Numbers, Constants
<1>4. OutInTurn(n)' BY <1>1, <1>3, SentInTurn, MaxRoundType
<1>5. Clock(n)' = Clock(n) BY <1>1 DEF Clock
<1>6. CASE At(n, "idle", 0, 0) /\ late' = [late EXCEPT ![n] = 0]
  <2>1. tester'[n].pc = "idle" /\ late'[n] = 0
    BY <1>6 DEF At, TypeInv, TesterTypes
  <2>2. Clock(n) <= Begins(round_array[n] + 1) + 0
    BY <1>3, Numbers, Constants
  <2>3. OnTime(n)' BY <1>1, <1>5, <2>1, <2>2 DEF OnTime
  <2>4. QED BY <1>4, <2>1, <2>3 DEF NodeInv, Schedule, InRound
<1>7. CASE tester[n].left > 1 /\ At(n, "sync", now + 1, tester[n].left - 1) /\ late' = late
  <2>1. /\ tester'[n].pc = "sync" /\ tester'[n].wake = now + 1
        /\ tester'[n].left = tester[n].left - 1
    BY <1>7 DEF At, TypeInv, TesterTypes
  <2>2. /\ now + 1 + ahead[n] <= Begins(round_array[n])
                         + (2 + Packages + SyncSends - (tester[n].left - 1)) + late[n]
        /\ Clock(n) <= Begins(round_array[n])
                         + (2 + Packages + SyncSends - (tester[n].left - 1)) + late[n]
        /\ tester[n].left - 1 <= SyncSends
    BY <1>2, Numbers, Constants
  <2>3. Schedule(n)'
    BY <1>1, <1>5, <1>7, <2>1, <2>2 DEF Schedule, Within
  <2>4. QED BY <1>1, <1>4, <1>5, <2>1, <2>3 DEF NodeInv, OnTime, InRound
<1>8. QED BY <1>1, <1>6, <1>7

\* Nothing is on its way to the wire when time passes, and a test thread that
\* is due is delayed.
LEMMA TickTurn ==
  ASSUME TypeInv, NEW n \in Node, NodeInv(n), Tick
  PROVE  NodeInv(n)'
<1>1. /\ now' = now + 1 /\ ahead' = ahead /\ round_array' = round_array
      /\ status' = status /\ out' = out /\ tester' = tester /\ out[n] = <<>>
      /\ late'[n] = IF Due(n) THEN late[n] + 1 ELSE late[n]
  BY DEF Tick, Busy
<1>2. Clock(n)' = Clock(n) + 1
  <2>1. now \in Nat /\ ahead[n] \in Nat BY Numbers
  <2>2. QED BY <1>1, <2>1 DEF Clock
<1>3. OutInTurn(n)' BY <1>1 DEF OutInTurn
<1>4. InRound(n)' BY <1>1, <1>2, Numbers DEF NodeInv, InRound
<1>5. ASSUME NEW k \in Nat, Within(n, k), tester[n].pc \in {"package", "pause", "sync"}
      PROVE  Within(n, k)'
  <2>1. CASE Due(n)
    <3>1. /\ tester[n].wake + ahead[n] <= Begins(round_array[n]) + k + (late[n] + 1)
          /\ Clock(n) + 1 <= Begins(round_array[n]) + k + (late[n] + 1)
      BY <1>5, Numbers DEF Within
    <3>2. QED BY <1>1, <1>2, <2>1, <3>1 DEF Within
  <2>2. CASE ~Due(n)
    <3>1. now < tester[n].wake BY <1>5, <2>2, Numbers DEF Due
    <3>2. QED BY <1>1, <1>2, <1>5, <2>2, <3>1, Numbers DEF Within
  <2>3. QED BY <2>1, <2>2
<1>6. Schedule(n)'
  <2>1. CASE tester[n].pc = "package"
    <3>1. 1 + Packages - tester[n].left \in Nat /\ Within(n, 1 + Packages - tester[n].left)
      BY <2>1, Numbers, Constants DEF NodeInv, Schedule
    <3>2. Within(n, 1 + Packages - tester[n].left)' BY <1>1, <2>1, <3>1, <1>5
    <3>3. QED BY <1>1, <2>1, <3>2 DEF NodeInv, Schedule
  <2>2. CASE tester[n].pc = "pause"
    <3>1. 2 + Packages \in Nat /\ Within(n, 2 + Packages)
      BY <2>2, Constants DEF NodeInv, Schedule
    <3>2. Within(n, 2 + Packages)' BY <2>2, <3>1, <1>5
    <3>3. QED BY <1>1, <2>2, <3>2 DEF Schedule
  <2>3. CASE tester[n].pc = "sync"
    <3>1. /\ 2 + Packages + SyncSends - tester[n].left \in Nat
          /\ Within(n, 2 + Packages + SyncSends - tester[n].left)
      BY <2>3, Numbers, Constants DEF NodeInv, Schedule
    <3>2. Within(n, 2 + Packages + SyncSends - tester[n].left)' BY <1>1, <2>3, <3>1, <1>5
    <3>3. QED BY <1>1, <2>3, <3>2 DEF NodeInv, Schedule
  <2>4. QED BY <1>1, <2>1, <2>2, <2>3 DEF Schedule
<1>7. OnTime(n)'
  <2> SUFFICES ASSUME tester[n].pc = "idle", round_array[n] # 0
               PROVE  Clock(n) + 1 <= Begins(round_array[n] + 1) + late'[n]
    BY <1>1, <1>2 DEF OnTime
  <2>1. CASE Due(n)
    BY <1>1, <2>1, Numbers, Constants DEF NodeInv, OnTime
  <2>2. CASE ~Due(n)
    <3>1. CurrentRound(n) <= round_array[n] /\ CurrentRound(n) \in Nat
      BY <2>2, Numbers, RoundsOfClock DEF Due, NewRound, TypeInv, Rounds
    <3>2. Clock(n) < Begins(CurrentRound(n) + 1) BY RoundsOfClock DEF TypeInv
    <3>3. Begins(CurrentRound(n) + 1) <= Begins(round_array[n] + 1)
      <4>1. CASE CurrentRound(n) = round_array[n]
        BY <4>1, Numbers, Constants
      <4>2. CASE CurrentRound(n) < round_array[n]
        BY <3>1, <4>2, BeginsLater, Numbers, Constants
      <4>3. QED BY <3>1, <4>1, <4>2, Numbers
    <3>4. Begins(CurrentRound(n) + 1) \in Nat BY <3>1, BeginsNext
    <3>5. QED BY <1>1, <2>2, <3>2, <3>3, <3>4, Numbers, Constants
  <2>3. QED BY <2>1, <2>2
<1>8. QED BY <1>3, <1>4, <1>6, <1>7 DEF NodeInv

LEMMA OthersTurn ==
  ASSUME TypeInv, NEW n \in Node, TestThread(n), NEW m \in Node, m # n, NodeInv(m)
  PROVE  NodeInv(m)'
<1>1. /\ now' = now /\ ahead' = ahead
      /\ \A pc, wake, left : At(n, pc, wake, left) => tester'[m] = tester[m]
      /\ Idle(n) => tester'[m] = tester[m] /\ late'[m] = late[m]
  BY DEF TestThread, BeginRound, SendPackage, EndRound, Sync, At, Idle, TypeInv, TesterTypes
<1>2. CASE BeginRound(n)
  <2>1. status'[m]["test"] = status[m]["test"]
    <3>1. CASE SkipsRound(n) BY <1>2, <3>1 DEF BeginRound
    <3>2. CASE ~SkipsRound(n) BY <1>2, <3>2, StatusUpdated DEF BeginRound, TypeInv
    <3>3. QED BY <3>1, <3>2
  <2>2. /\ round_array'[m] = round_array[m] /\ out' = out
        /\ tester'[m] = tester[m] /\ late'[m] = late[m]
    BY <1>1, <1>2 DEF BeginRound, TypeInv
  <2>3. QED BY <1>1, <2>1, <2>2, Unmoved
<1>3. CASE SendPackage(n)
  <2>1. out'[m] = out[m] BY <1>3, Written DEF SendPackage, TypeInv
  <2>2. QED BY <1>1, <1>3, <2>1, Unmoved DEF SendPackage
<1>4. CASE EndRound(n)
  BY <1>1, <1>4, Unmoved DEF EndRound
<1>5. CASE Sync(n)
  <2>1. out'[m] = out[m] BY <1>5, Written, MaxRoundType DEF Sync, TypeInv
  <2>2. QED BY <1>1, <1>5, <2>1, Unmoved DEF Sync
<1>6. QED BY <1>2, <1>3, <1>4, <1>5 DEF TestThread

LEMMA ListenThreadTurn ==
  ASSUME TypeInv, NEW n \in Node, ListenThread(n), NEW m \in Node, NodeInv(m)
  PROVE  NodeInv(m)'
<1>1. /\ now' = now /\ ahead' = ahead /\ out' = out /\ tester' = tester /\ late' = late
      /\ round_array' = round_array
  BY DEF ListenThread, BeginCall, ReadPiece, Timeout
<1>2. status'[m]["test"] = status[m]["test"]
  <2>1. CASE BeginCall(n) BY <2>1, StatusUpdated DEF BeginCall, TypeInv
  <2>2. CASE ReadPiece(n) BY <2>2 DEF ReadPiece
  <2>3. CASE Timeout(n) BY <2>3 DEF Timeout
  <2>4. QED BY <2>1, <2>2, <2>3 DEF ListenThread
<1>3. QED BY <1>1, <1>2, Unmoved

LEMMA EnvironmentTurn ==
  ASSUME TypeInv, NEW n \in Node, Transmit(n) \/ LoseByte(n) \/ Crash(n) \/ Start(n),
         NEW m \in Node, NodeInv(m)
  PROVE  NodeInv(m)'
<1>1. CASE Transmit(n) \/ LoseByte(n)
  <2>1. Shift(n) BY <1>1 DEF Transmit, LoseByte
  <2>2. out[m] = <<>> => out'[m] = <<>> BY <2>1 DEF Shift, TypeInv
  <2>3. QED BY <2>1, <2>2, Unmoved DEF Shift
<1>2. CASE Crash(n)
  <2>1. CASE m # n
    BY <1>2, <2>1, Unmoved DEF Crash, At, TypeInv, TesterTypes
  <2>2. CASE m = n
    <3>1. tester'[n].pc = "down" BY <1>2 DEF Crash, At, TypeInv, TesterTypes
    <3>2. OutInTurn(n)' BY <1>2, <2>2, InTurnStill DEF Crash, NodeInv
    <3>3. QED BY <2>2, <3>1, <3>2 DEF NodeInv, Schedule, OnTime, InRound
  <2>3. QED BY <2>1, <2>2
<1>3. CASE Start(n)
  <2>1. CASE m # n
    <3>1. tester'[m] = tester[m] /\ late'[m] = late[m]
      BY <1>3, <2>1 DEF Start, Idle, At, TypeInv, TesterTypes
    <3>2. /\ round_array'[m] = round_array[m] /\ out'[m] = out[m]
          /\ status'[m] = status[m] /\ now' = now /\ ahead' = ahead
      BY <1>3, <2>1 DEF Start, TypeInv
    <3>3. QED BY <3>1, <3>2, Unmoved
  <2>2. CASE m = n
    <3>1. tester'[n].pc = "idle" BY <1>3 DEF Start, Idle, At, TypeInv, TesterTypes
    <3>2. out'[n] = <<>> /\ round_array'[n] = 0 BY <1>3 DEF Start, TypeInv
    <3>3. QED BY <2>2, <3>1, <3>2 DEF NodeInv, Schedule, OnTime, InRound, OutInTurn
  <2>3. QED BY <2>1, <2>2
<1>4. QED BY <1>1, <1>2, <1>3

LEMMA TurnsKept ==
  ASSUME Alternating, TypeInv, TurnInv, [Next]_vars
  PROVE  TurnInv'
<1>1. SUFFICES ASSUME NEW m \in Node PROVE NodeInv(m)'
  BY DEF TurnInv
<1>2. NodeInv(m) BY DEF TurnInv
<1>3. CASE Tick BY <1>2, <1>3, TickTurn
<1>4. ASSUME NEW n \in Node, TestThread(n) PROVE NodeInv(m)'
  <2>1. CASE m # n BY <1>2, <1>4, <2>1, OthersTurn
  <2>2. CASE m = n
    BY <1>2, <1>4, <2>2, BeginRoundTurn, SendPackageTurn, EndRoundTurn, SyncTurn
       DEF TestThread
  <2>3. QED BY <2>1, <2>2
<1>5. ASSUME NEW n \in Node, ListenThread(n) PROVE NodeInv(m)'
  BY <1>2, <1>5, ListenThreadTurn
<1>6. ASSUME NEW n \in Node, Transmit(n) \/ LoseByte(n) \/ Crash(n) \/ Start(n)
      PROVE  NodeInv(m)'
  BY <1>2, <1>6, EnvironmentTurn
<1>7. CASE UNCHANGED vars BY <1>2, <1>7, Unmoved DEF vars
<1>8. QED BY <1>3, <1>4, <1>5, <1>6, <1>7 DEF Next

\* Two frames on the wire are in turns of rounds of different parity, and the
\* clocks do not differ enough for both rounds to be under way.
LEMMA OneDriver ==
  ASSUME Alternating, TypeInv, TurnInv
  PROVE  NoCollision
<1>1. ASSUME NEW n \in Node, NEW m \in Node, n # m, out[n] # <<>>, out[m] # <<>>,
             round_array[n] <= round_array[m]
      PROVE  FALSE
  <2>1. OutInTurn(n) /\ OutInTurn(m) BY DEF TurnInv, NodeInv
  <2>2. HasTurn(n, round_array[n]) /\ HasTurn(m, round_array[m])
    BY <1>1, <2>1 DEF OutInTurn
  <2>3. round_array[n] # round_array[m]
    BY <1>1, <2>2, TurnsAlternate, Numbers
  <2>4. Begins(round_array[n] + 1) <= Begins(round_array[m])
    BY <1>1, <2>3, BeginsLater, Numbers
  <2>5. Clock(n) + Skew < Begins(round_array[n] + 1) /\ Begins(round_array[m]) <= Clock(m)
    BY <1>1, <2>1 DEF OutInTurn
  <2>6. Clock(m) <= Clock(n) + Skew BY Numbers, Constants
  <2>7. QED BY <2>4, <2>5, <2>6, Numbers, Constants
<1>2. ASSUME NEW n \in Node, NEW m \in Node, n # m, out[n] # <<>>, out[m] # <<>>
      PROVE  FALSE
  BY <1>1, <1>2, Numbers
<1> DEFINE driving == {n \in Node : out[n] # <<>>}
<1>3. CASE driving = {}
  BY <1>3, FS_EmptySet DEF NoCollision
<1>4. CASE driving # {}
  <2>1. PICK n \in driving : TRUE BY <1>4
  <2>2. driving = {n} BY <1>2, <2>1
  <2>3. Cardinality({n}) = 1 BY FS_Singleton
  <2>4. Cardinality(driving) = 1 BY <2>2, <2>3
  <2>5. Cardinality(driving) <= 1 BY <2>4
  <2>6. QED BY <2>5 DEF NoCollision
<1>5. QED BY <1>3, <1>4

LEMMA TurnsHold ==
  ASSUME Alternating
  PROVE  Spec => []TurnInv
<1>1. Init => TurnInv
  BY DEF Init, TurnInv, NodeInv, Schedule, OnTime, InRound, OutInTurn
<1>2. TypeInv /\ TurnInv /\ [Next]_vars => TurnInv' BY TurnsKept
<1>3. QED BY <1>1, <1>2, TypesHold, PTL DEF Spec

\* When the choosers of the two ends alternate, the ends never drive the wire
\* at the same time: for any number of packages, of batches and of restarts, and
\* any clocks and delays that leave room in a round.
THEOREM WireShared ==
  ASSUME Alternating
  PROVE  Spec => []NoCollision
<1>1. TypeInv /\ TurnInv => NoCollision BY OneDriver
<1>2. QED BY <1>1, TypesHold, TurnsHold, PTL

-----------------------------------------------------------------------------
(***************************************************************************)
(* Counts.  A frame is on its way, for its receiver, from the time it is   *)
(* written until it is recognised, lost or discarded.                      *)
(***************************************************************************)
Holding(s, r) == {i \in 1..Len(s) : s[i] = Text(r)}
Copies(s, r)  == Cardinality(Holding(s, r))

OnItsWay(n, r) ==
    Copies(listener[n].got, r) + Copies(in[n], r) + Copies(out[Peer(n)], r)

CountTypes ==
    sent \in [Node -> [Rounds -> Nat]] /\ counted \in [Node -> [Rounds -> Nat]]

(* A node sends the packages of a round once, because it begins no round   *)
(* twice: after a restart the current round is only noted.                 *)
SentOnce(n) ==
    /\ round_array[n] <= CurrentRound(n)
    /\ \A r \in Rounds :
           /\ sent[n][r] <= Packages
           /\ sent[n][r] > 0 => /\ r # 0 /\ r <= CurrentRound(n)
                                /\ round_array[n] = 0 \/ r <= round_array[n]
    /\ tester[n].pc = "package" =>
           sent[n][round_array[n]] + tester[n].left <= Packages

CountedOnce(n) ==
    /\ counted[n][0] = 0
    /\ \A r \in Rounds \ {0} : counted[n][r] + OnItsWay(n, r) <= sent[Peer(n)][r]

LEMMA CopiesType ==
  ASSUME NEW s \in Seq(Pieces), NEW r
  PROVE  IsFiniteSet(Holding(s, r)) /\ Copies(s, r) \in Nat
<1>1. IsFiniteSet(1..Len(s)) BY FS_Interval
<1>2. Holding(s, r) \in SUBSET (1..Len(s)) BY DEF Holding
<1>3. QED BY <1>1, <1>2, FS_Subset, FS_CardinalityType DEF Copies

LEMMA CopiesEmpty == \A r : Copies(<<>>, r) = 0
<1>1. \A r : Holding(<<>>, r) = {} BY DEF Holding
<1>2. QED BY <1>1, FS_EmptySet DEF Copies

LEMMA CopiesAppend ==
  ASSUME NEW s \in Seq(Pieces), NEW p \in Pieces, NEW r
  PROVE  Copies(Append(s, p), r) = Copies(s, r) + IF p = Text(r) THEN 1 ELSE 0
<1>1. Len(s) + 1 \notin Holding(s, r) BY DEF Holding
<1>2. CASE p = Text(r)
  <2>1. Holding(Append(s, p), r) = Holding(s, r) \cup {Len(s) + 1}
    BY <1>2 DEF Holding
  <2>2. QED BY <1>1, <1>2, <2>1, CopiesType, FS_AddElement DEF Copies
<1>3. CASE p # Text(r)
  <2>1. Holding(Append(s, p), r) = Holding(s, r)
    BY <1>3 DEF Holding
  <2>2. QED BY <1>3, <2>1, CopiesType DEF Copies
<1>4. QED BY <1>2, <1>3

LEMMA CopiesOne ==
  ASSUME NEW p \in Pieces, NEW r
  PROVE  Copies(<<p>>, r) = IF p = Text(r) THEN 1 ELSE 0
<1>1. <<p>> = Append(<<>>, p) /\ <<>> \in Seq(Pieces) OBVIOUS
<1>2. Copies(Append(<<>>, p), r) = Copies(<<>>, r) + IF p = Text(r) THEN 1 ELSE 0
  BY <1>1, CopiesAppend
<1>3. Copies(<<>>, r) = 0 BY CopiesEmpty
<1>4. QED BY <1>1, <1>2, <1>3

LEMMA CopiesTail ==
  ASSUME NEW s \in Seq(Pieces), s # <<>>, NEW r
  PROVE  Copies(Tail(s), r) + (IF s[1] = Text(r) THEN 1 ELSE 0) <= Copies(s, r)
<1> DEFINE later == Holding(s, r) \ {1}
           f == [i \in Holding(Tail(s), r) |-> i + 1]
<1>1. /\ Tail(s) \in Seq(Pieces) /\ Len(Tail(s)) = Len(s) - 1 /\ Len(s) \in Nat
      /\ \A i \in 1..Len(s) - 1 : Tail(s)[i] = s[i + 1]
      /\ 1 \in 1..Len(s)
  OBVIOUS
<1>2. /\ IsFiniteSet(Holding(s, r)) /\ Copies(s, r) \in Nat
      /\ IsFiniteSet(Holding(Tail(s), r)) /\ Copies(Tail(s), r) \in Nat
  BY <1>1, CopiesType
<1>3. ASSUME NEW i \in Holding(Tail(s), r) PROVE f[i] \in later
  BY <1>1, <1>3 DEF Holding
<1>4. ASSUME NEW i \in Holding(Tail(s), r), NEW j \in Holding(Tail(s), r), f[i] = f[j]
      PROVE  i = j
  BY <1>1, <1>4 DEF Holding
<1>5. f \in Injection(Holding(Tail(s), r), later)
  BY <1>3, <1>4 DEF Injection, IsInjective
<1>6. /\ IsFiniteSet(later)
      /\ Cardinality(later) = IF 1 \in Holding(s, r) THEN Copies(s, r) - 1 ELSE Copies(s, r)
  BY <1>2, FS_RemoveElement DEF Copies
<1>7. 1 \in Holding(s, r) <=> s[1] = Text(r) BY <1>1 DEF Holding
<1> HIDE DEF later, f
<1>8. Copies(Tail(s), r) <= Cardinality(later) BY <1>5, <1>6, FS_Injection DEF Copies
<1>9. QED BY <1>2, <1>6, <1>7, <1>8

LEMMA CopiesOfFrame ==
  ASSUME NEW s \in Seq(Pieces), NEW q \in Rounds, NEW r \in Rounds
  PROVE  Copies(s \o FrameOf(q), r) = Copies(s, r) + IF q = r THEN 1 ELSE 0
<1>1. Text(q) \in Pieces /\ Padding \in Pieces BY DEF Pieces
<1>2. s \o FrameOf(q) = Append(Append(s, Text(q)), Padding) BY <1>1 DEF FrameOf
<1>3. Append(s, Text(q)) \in Seq(Pieces) BY <1>1
<1>4. Padding # Text(r) BY DEF Padding, Text
<1>5. Text(q) = Text(r) <=> q = r BY DEF Text
<1>6. Copies(Append(s, Text(q)), r) = Copies(s, r) + IF q = r THEN 1 ELSE 0
  BY <1>1, <1>5, CopiesAppend
<1>7. Copies(Append(Append(s, Text(q)), Padding), r) = Copies(Append(s, Text(q)), r) + 0
  BY <1>1, <1>3, <1>4, CopiesAppend
<1>8. Copies(Append(s, Text(q)), r) \in Nat BY <1>3, CopiesType
<1>9. QED BY <1>2, <1>6, <1>7, <1>8

LEMMA FrameWritten ==
  ASSUME TypeInv, CountTypes, NEW n \in Node, NEW r \in Rounds, send_message(n, r)
  PROVE  /\ sent' \in [Node -> [Rounds -> Nat]]
         /\ \A m \in Node : m # n => sent'[m] = sent[m] /\ out'[m] = out[m]
         /\ \A q \in Rounds :
                /\ sent'[n][q] <= sent[n][q] + 1
                /\ q # r \/ r = 0 => sent'[n][q] = sent[n][q]
                /\ q # 0 => Copies(out'[n], q) + sent[n][q] <= Copies(out[n], q) + sent'[n][q]
<1>1. CASE RefusesToSend(n)
  <2>1. out' = out /\ sent' = sent BY <1>1 DEF send_message
  <2>2. out[n] \in Seq(Pieces) BY DEF TypeInv
  <2>3. \A q \in Rounds : sent[n][q] \in Nat /\ Copies(out[n], q) \in Nat
    BY <2>2, CopiesType DEF CountTypes
  <2>4. QED BY <2>1, <2>3 DEF CountTypes
<1>2. CASE ~RefusesToSend(n)
  <2>1. /\ out' = [out EXCEPT ![n] = @ \o FrameOf(r)]
        /\ sent' = IF r = 0 THEN sent ELSE [sent EXCEPT ![n][r] = @ + 1]
    BY <1>2 DEF send_message, Write
  <2>2. sent' \in [Node -> [Rounds -> Nat]]
    BY <2>1 DEF CountTypes
  <2>3. \A m \in Node : m # n => sent'[m] = sent[m] /\ out'[m] = out[m]
    BY <2>1 DEF CountTypes, TypeInv
  <2>4. ASSUME NEW q \in Rounds
        PROVE  /\ sent[n][q] \in Nat
               /\ sent'[n][q] = sent[n][q] + IF q = r /\ r # 0 THEN 1 ELSE 0
    BY <2>1 DEF CountTypes
  <2>5. out[n] \in Seq(Pieces) /\ out'[n] = out[n] \o FrameOf(r)
    BY <2>1 DEF TypeInv
  <2>6. ASSUME NEW q \in Rounds
        PROVE  /\ Copies(out[n], q) \in Nat
               /\ Copies(out'[n], q) = Copies(out[n], q) + IF r = q THEN 1 ELSE 0
    BY <2>5, CopiesType, CopiesOfFrame
  <2>7. QED BY <2>2, <2>3, <2>4, <2>6
<1>3. QED BY <1>1, <1>2

LEMMA SentStill ==
  ASSUME NEW n \in Node, SentOnce(n), sent'[n] = sent[n], round_array'[n] = round_array[n],
         now' = now, ahead' = ahead, tester'[n] = tester[n] \/ tester'[n].pc # "package"
  PROVE  SentOnce(n)'
BY DEF SentOnce, CurrentRound

LEMMA TestThreadSends ==
  ASSUME TypeInv, CountTypes, NEW n \in Node, SentOnce(n), TestThread(n)
  PROVE  SentOnce(n)'
<1>1. /\ round_array[n] \in Rounds /\ round_array[n] \in Nat
      /\ \A r \in Rounds : r \in Nat /\ sent[n][r] \in Nat
  BY MaxRoundType DEF TypeInv, CountTypes, Rounds
<1>2. CurrentRound(n) \in Rounds /\ CurrentRound(n) # 0
  BY RoundsOfClock DEF TypeInv
<1>3. CASE BeginRound(n)
  <2>1. /\ sent' = sent /\ CurrentRound(n)' = CurrentRound(n)
        /\ round_array'[n] = CurrentRound(n) /\ CurrentRound(n) > round_array[n]
    BY <1>3 DEF BeginRound, NewRound, CurrentRound, TypeInv
  <2>2. CASE SkipsRound(n)
    <3>1. tester'[n].pc = "idle"
      BY <1>3, <2>2 DEF BeginRound, Idle, At, TypeInv, TesterTypes
    <3>2. QED BY <1>1, <1>2, <2>1, <3>1 DEF SentOnce
  <2>3. CASE ~SkipsRound(n)
    <3>1. tester'[n].pc = "package" /\ tester'[n].left = Packages
      BY <1>3, <2>3 DEF BeginRound, At, TypeInv, TesterTypes
    <3>2. ~(sent[n][CurrentRound(n)] > 0)
      BY <1>1, <1>2, <2>1, <2>3 DEF SentOnce, SkipsRound
    <3>3. sent[n][CurrentRound(n)] + Packages <= Packages
      BY <1>1, <1>2, <3>2, Constants
    <3>4. QED BY <1>1, <1>2, <2>1, <3>1, <3>3 DEF SentOnce
  <2>4. QED BY <2>2, <2>3
<1>4. CASE SendPackage(n)
  <2>1. /\ round_array' = round_array /\ now' = now /\ ahead' = ahead
        /\ send_message(n, round_array[n]) /\ tester[n].pc = "package" /\ tester[n].left > 0
        /\ At(n, "pause", now + 2, 0) \/ At(n, "package", now + 1, tester[n].left - 1)
    BY <1>4 DEF SendPackage, Awake
  <2>2. CurrentRound(n)' = CurrentRound(n) BY <2>1 DEF CurrentRound
  <2>3. ASSUME NEW q \in Rounds
        PROVE  /\ sent'[n][q] \in Nat /\ sent'[n][q] <= sent[n][q] + 1
               /\ q # round_array[n] \/ round_array[n] = 0 => sent'[n][q] = sent[n][q]
    BY <1>1, <2>1, FrameWritten
  <2>4. tester'[n].pc = "package" => tester'[n].left = tester[n].left - 1
    BY <2>1 DEF At, TypeInv, TesterTypes
  <2>5. tester[n].left \in Nat BY Numbers
  <2>6. sent[n][round_array[n]] + tester[n].left <= Packages
    BY <2>1 DEF SentOnce
  <2>7. sent'[n][round_array[n]] + (tester[n].left - 1) <= Packages
    BY <1>1, <2>3, <2>5, <2>6, Constants
  <2>8. ASSUME NEW q \in Rounds
        PROVE  /\ sent'[n][q] <= Packages
               /\ sent'[n][q] > 0 => /\ q # 0 /\ q <= CurrentRound(n)
                                     /\ round_array[n] = 0 \/ q <= round_array[n]
    <3>1. CASE q = round_array[n] /\ round_array[n] # 0
      BY <1>1, <2>1, <2>3, <2>5, <2>7, <3>1, Constants DEF SentOnce
    <3>2. CASE q # round_array[n] \/ round_array[n] = 0
      BY <2>3, <3>2 DEF SentOnce
    <3>3. QED BY <3>1, <3>2
  <2>9. QED BY <2>1, <2>2, <2>4, <2>7, <2>8 DEF SentOnce
<1>5. CASE EndRound(n)
  <2>1. tester'[n].pc # "package"
    BY <1>5 DEF EndRound, Idle, At, TypeInv, TesterTypes
  <2>2. QED BY <1>5, <2>1, SentStill DEF EndRound
<1>6. CASE Sync(n)
  <2>1. tester'[n].pc # "package"
    BY <1>6 DEF Sync, Idle, At, TypeInv, TesterTypes
  <2>2. \A q \in Rounds : sent'[n][q] = sent[n][q]
    BY <1>6, FrameWritten, MaxRoundType DEF Sync
  <2>3. CurrentRound(n)' = CurrentRound(n) BY <1>6 DEF Sync, CurrentRound
  <2>4. QED BY <1>6, <2>1, <2>2, <2>3 DEF Sync, SentOnce
<1>7. QED BY <1>3, <1>4, <1>5, <1>6 DEF TestThread

LEMMA SentKept ==
  ASSUME TypeInv, CountTypes, NEW n \in Node, SentOnce(n), [Next]_vars
  PROVE  SentOnce(n)'
<1>1. CASE Tick
  <2>1. /\ now' = now + 1 /\ ahead' = ahead /\ sent' = sent /\ round_array' = round_array
        /\ tester' = tester
    BY <1>1 DEF Tick
  <2>2. now \in Nat /\ ahead[n] \in Nat /\ now + ahead[n] \in Nat /\ round_array[n] \in Nat
    BY Numbers
  <2>3. (now + 1) + ahead[n] = (now + ahead[n]) + 1 BY <2>2
  <2>4. CurrentRound(n)' = (now + ahead[n] + 1) \div RoundLen
    BY <2>1, <2>3 DEF CurrentRound
  <2>5. CurrentRound(n) <= CurrentRound(n)'
    BY <2>2, <2>4, DivisionMonotone DEF CurrentRound
  <2>6. CurrentRound(n) \in Nat /\ CurrentRound(n)' \in Nat
    BY <2>2, <2>4, Division DEF CurrentRound
  <2>7. \A r \in Rounds : r \in Nat BY MaxRoundType DEF Rounds
  <2>8. round_array[n] <= CurrentRound(n)' BY <2>2, <2>5, <2>6 DEF SentOnce
  <2>9. ASSUME NEW r \in Rounds, sent[n][r] > 0 PROVE r <= CurrentRound(n)'
    BY <2>5, <2>6, <2>7, <2>9 DEF SentOnce
  <2>10. QED BY <2>1, <2>8, <2>9 DEF SentOnce
<1>2. ASSUME NEW m \in Node, TestThread(m) PROVE SentOnce(n)'
  <2>1. CASE m = n BY <1>2, <2>1, TestThreadSends
  <2>2. CASE m # n
    <3>1. now' = now /\ ahead' = ahead /\ tester'[n] = tester[n]
      BY <1>2, <2>2 DEF TestThread, BeginRound, SendPackage, EndRound, Sync, At, Idle,
                        TypeInv, TesterTypes
    <3>2. round_array'[n] = round_array[n]
      BY <1>2, <2>2 DEF TestThread, BeginRound, SendPackage, EndRound, Sync, TypeInv
    <3>3. sent'[n] = sent[n]
      <4>1. CASE SendPackage(m)
        BY <2>2, <4>1, FrameWritten DEF SendPackage, TypeInv
      <4>2. CASE Sync(m)
        BY <2>2, <4>2, FrameWritten, MaxRoundType DEF Sync
      <4>3. CASE BeginRound(m) \/ EndRound(m)
        BY <4>3 DEF BeginRound, EndRound
      <4>4. QED BY <1>2, <4>1, <4>2, <4>3 DEF TestThread
    <3>4. QED BY <3>1, <3>2, <3>3, SentStill
  <2>3. QED BY <2>1, <2>2
<1>3. ASSUME NEW m \in Node, ListenThread(m) PROVE SentOnce(n)'
  BY <1>3, SentStill DEF ListenThread, BeginCall, ReadPiece, Timeout
<1>4. ASSUME NEW m \in Node, Transmit(m) \/ LoseByte(m) PROVE SentOnce(n)'
  BY <1>4, SentStill DEF Transmit, LoseByte, Shift
<1>5. ASSUME NEW m \in Node, Crash(m) PROVE SentOnce(n)'
  <2>1. tester'[n] = tester[n] \/ tester'[n].pc # "package"
    BY <1>5 DEF Crash, At, TypeInv, TesterTypes
  <2>2. QED BY <1>5, <2>1, SentStill DEF Crash
<1>6. ASSUME NEW m \in Node, Start(m) PROVE SentOnce(n)'
  <2>1. tester'[n] = tester[n] \/ tester'[n].pc # "package"
    BY <1>6 DEF Start, Idle, At, TypeInv, TesterTypes
  <2>2. now' = now /\ ahead' = ahead /\ sent' = sent BY <1>6 DEF Start
  <2>3. CASE m # n
    <3>1. round_array'[n] = round_array[n] BY <1>6, <2>3 DEF Start, TypeInv
    <3>2. QED BY <2>1, <2>2, <3>1, SentStill
  <2>4. CASE m = n
    <3>1. tester'[n].pc # "package" /\ round_array'[n] = 0
      BY <1>6, <2>4 DEF Start, Idle, At, TypeInv, TesterTypes
    <3>2. CurrentRound(n)' = CurrentRound(n) BY <2>2 DEF CurrentRound
    <3>3. 0 <= CurrentRound(n) BY RoundsOfClock DEF TypeInv
    <3>4. QED BY <2>2, <3>1, <3>2, <3>3 DEF SentOnce
  <2>5. QED BY <2>3, <2>4
<1>7. CASE UNCHANGED vars BY <1>7, SentStill DEF vars
<1>8. QED BY <1>1, <1>2, <1>3, <1>4, <1>5, <1>6, <1>7 DEF Next

\* What the steps leave to be shown: nothing comes on its way to a node but what
\* is counted less or sent more.
LEMMA CountedStill ==
  ASSUME CountTypes, CountTypes', NEW n \in Node, CountedOnce(n),
         counted'[n][0] = counted[n][0],
         \A r \in Rounds \ {0} :
             /\ OnItsWay(n, r) \in Nat /\ OnItsWay(n, r)' \in Nat
             /\ counted'[n][r] + OnItsWay(n, r)' + sent[Peer(n)][r]
                    <= counted[n][r] + OnItsWay(n, r) + sent'[Peer(n)][r]
  PROVE  CountedOnce(n)'
<1>1. Peer(n) \in Node BY PeerOfNode
<1>2. ASSUME NEW r \in Rounds \ {0}
      PROVE  counted'[n][r] + OnItsWay(n, r)' <= sent'[Peer(n)][r]
  <2>1. /\ counted[n][r] \in Nat /\ counted'[n][r] \in Nat
        /\ sent[Peer(n)][r] \in Nat /\ sent'[Peer(n)][r] \in Nat
    BY <1>1 DEF CountTypes
  <2>2. counted[n][r] + OnItsWay(n, r) <= sent[Peer(n)][r] BY DEF CountedOnce
  <2>3. QED BY <2>1, <2>2
<1>3. QED BY <1>2 DEF CountedOnce, Peer

LEMMA OnItsWayType ==
  ASSUME TypeInv, NEW n \in Node, NEW r
  PROVE  /\ Copies(listener[n].got, r) \in Nat /\ Copies(in[n], r) \in Nat
         /\ Copies(out[Peer(n)], r) \in Nat
<1>1. listener[n].got \in Seq(Pieces)
  <2>1. listener[n].got \in Heads BY DEF TypeInv, Calls
  <2>2. <<>> \in Seq(Pieces) /\ \A p \in Pieces : <<p>> \in Seq(Pieces) OBVIOUS
  <2>3. QED BY <2>1, <2>2 DEF Heads
<1>2. in[n] \in Seq(Pieces) /\ out[Peer(n)] \in Seq(Pieces) BY PeerOfNode DEF TypeInv
<1>3. QED BY <1>1, <1>2, CopiesType

LEMMA DealtWith ==
  ASSUME TypeInv, CountTypes, NEW n \in Node, NEW g \in Pieces, NEW msg,
         listener[n].got = <<g>>, msg[1] = g, Deal(n, msg)
  PROVE  /\ counted' \in [Node -> [Rounds -> Nat]]
         /\ listener'[n].got = <<>>
         /\ counted'[n][0] = counted[n][0]
         /\ \A r \in Rounds : counted'[n][r] <= counted[n][r] + Copies(listener[n].got, r)
         /\ \A m \in Node : m # n => counted'[m] = counted[m]
<1>1. CurrentRound(n) \in Rounds /\ CurrentRound(n) # 0 BY RoundsOfClock DEF TypeInv
<1>2. listener'[n].got = <<>> BY DEF Deal, NotReading, TypeInv
<1>3. \A r \in Rounds : Copies(<<g>>, r) = IF g = Text(r) THEN 1 ELSE 0
  BY CopiesOne
<1>4. 0 \in Rounds BY MaxRoundType
<1>5. CASE Recognised(n, msg)
  <2>1. counted' = [counted EXCEPT ![n][CurrentRound(n)] = @ + 1] BY <1>5 DEF Deal
  <2>2. g = Text(CurrentRound(n)) BY <1>5 DEF Recognised
  <2>3. ASSUME NEW r \in Rounds
        PROVE  counted'[n][r] <= counted[n][r] + Copies(listener[n].got, r)
    <3>1. counted[n][r] \in Nat BY DEF CountTypes
    <3>2. CASE r = CurrentRound(n)
      BY <1>3, <2>1, <2>2, <3>1, <3>2 DEF CountTypes
    <3>3. CASE r # CurrentRound(n)
      <4>1. counted'[n][r] = counted[n][r] BY <2>1, <3>3 DEF CountTypes
      <4>2. Copies(listener[n].got, r) \in Nat BY <1>3
      <4>3. QED BY <3>1, <4>1, <4>2
    <3>4. QED BY <3>2, <3>3
  <2>4. counted' \in [Node -> [Rounds -> Nat]]
    BY <1>1, <2>1 DEF CountTypes
  <2>5. /\ counted'[n][0] = counted[n][0]
        /\ \A m \in Node : m # n => counted'[m] = counted[m]
    BY <1>1, <1>4, <2>1 DEF CountTypes
  <2>6. QED BY <1>2, <2>3, <2>4, <2>5
<1>6. CASE ~Recognised(n, msg)
  <2>1. counted' = counted BY <1>6 DEF Deal
  <2>2. ASSUME NEW r \in Rounds
        PROVE  counted[n][r] <= counted[n][r] + Copies(listener[n].got, r)
    <3>1. counted[n][r] \in Nat BY DEF CountTypes
    <3>2. Copies(listener[n].got, r) \in Nat BY <1>3
    <3>3. QED BY <3>1, <3>2
  <2>3. QED BY <1>2, <2>1, <2>2 DEF CountTypes
<1>7. QED BY <1>5, <1>6

LEMMA ListenThreadCounts ==
  ASSUME TypeInv, CountTypes, NEW n \in Node, ListenThread(n)
  PROVE  /\ counted' \in [Node -> [Rounds -> Nat]] /\ sent' = sent /\ out' = out
         /\ counted'[n][0] = counted[n][0]
         /\ \A r \in Rounds :
                counted'[n][r] + Copies(listener'[n].got, r) + Copies(in'[n], r)
                    <= counted[n][r] + Copies(listener[n].got, r) + Copies(in[n], r)
         /\ \A m \in Node : m # n => /\ counted'[m] = counted[m] /\ in'[m] = in[m]
                                     /\ listener'[m] = listener[m]
<1>1. sent' = sent /\ out' = out
  BY DEF ListenThread, BeginCall, ReadPiece, Timeout
<1>2. \A r \in Rounds : /\ counted[n][r] \in Nat /\ Copies(listener[n].got, r) \in Nat
                        /\ Copies(in[n], r) \in Nat /\ Copies(<<>>, r) = 0
  BY OnItsWayType, CopiesEmpty DEF CountTypes
<1>3. CASE BeginCall(n)
  <2>1. /\ counted' = counted /\ in' = in
        /\ \A m \in Node : m # n => listener'[m] = listener[m]
        /\ listener'[n] = listener[n] \/ listener'[n].got = <<>>
    BY <1>3 DEF BeginCall, TypeInv
  <2>2. \A r \in Rounds : Copies(listener'[n].got, r) <= Copies(listener[n].got, r)
    BY <1>2, <2>1
  <2>3. \A r \in Rounds : Copies(listener'[n].got, r) \in Nat
    BY <1>2, <2>1
  <2>4. QED BY <1>1, <1>2, <2>1, <2>2, <2>3 DEF CountTypes
<1>4. CASE ReadPiece(n)
  <2> DEFINE x == in[n][1]
  <2>1. in[n] \in Seq(Pieces) /\ in[n] # <<>> BY <1>4 DEF ReadPiece, TypeInv
  <2>2. x \in Pieces /\ Tail(in[n]) \in Seq(Pieces) BY <2>1
  <2>3. in'[n] = Tail(in[n]) /\ \A m \in Node : m # n => in'[m] = in[m]
    BY <1>4 DEF ReadPiece, TypeInv
  <2>4. \A r \in Rounds : /\ Copies(in'[n], r) \in Nat
                          /\ Copies(in'[n], r) + (IF x = Text(r) THEN 1 ELSE 0) <= Copies(in[n], r)
    BY <2>1, <2>2, <2>3, CopiesType, CopiesTail
  <2>5. /\ \A m \in Node : m # n => listener'[m] = listener[m]
    BY <1>4 DEF ReadPiece, Deal, TypeInv
  <2>6. CASE listener[n].got = <<>>
    <3>1. Append(listener[n].got, x) = <<x>> /\ Len(<<x>>) = 1 BY <2>6
    <3>2. counted' = counted /\ listener'[n].got = <<x>>
      BY <1>4, <3>1 DEF ReadPiece, TypeInv, Calls
    <3>3. \A r \in Rounds : Copies(<<x>>, r) = IF x = Text(r) THEN 1 ELSE 0
      BY <2>2, CopiesOne
    <3>4. ASSUME NEW r \in Rounds
          PROVE  counted[n][r] + Copies(<<x>>, r) + Copies(in'[n], r)
                     <= counted[n][r] + Copies(listener[n].got, r) + Copies(in[n], r)
      BY <1>2, <2>4, <2>6, <3>3
    <3>5. QED BY <1>1, <2>3, <2>5, <3>2, <3>4 DEF CountTypes
  <2>7. CASE \E g \in Pieces : listener[n].got = <<g>>
    <3>1. PICK g \in Pieces : listener[n].got = <<g>> BY <2>7
    <3>2. PICK msg : msg = Append(listener[n].got, x) OBVIOUS
    <3>3. <<g>> \in Seq(Pieces) /\ Len(<<g>>) = 1 /\ <<g>>[1] = g OBVIOUS
    <3>4. Len(msg) = 2 /\ msg[1] = g BY <2>2, <3>1, <3>2, <3>3
    <3>5. Deal(n, msg) BY <1>4, <3>2, <3>4 DEF ReadPiece
    <3>6. /\ counted' \in [Node -> [Rounds -> Nat]] /\ listener'[n].got = <<>>
          /\ counted'[n][0] = counted[n][0]
          /\ \A r \in Rounds : counted'[n][r] <= counted[n][r] + Copies(listener[n].got, r)
          /\ \A m \in Node : m # n => counted'[m] = counted[m]
      BY <3>1, <3>4, <3>5, DealtWith
    <3>7. ASSUME NEW r \in Rounds
          PROVE  counted'[n][r] + Copies(listener'[n].got, r) + Copies(in'[n], r)
                     <= counted[n][r] + Copies(listener[n].got, r) + Copies(in[n], r)
      <4>1. counted'[n][r] \in Nat /\ Copies(listener'[n].got, r) = 0 BY <1>2, <3>6
      <4>2. Copies(in'[n], r) \in Nat /\ Copies(in'[n], r) <= Copies(in[n], r)
        BY <1>2, <2>4
      <4>3. counted'[n][r] <= counted[n][r] + Copies(listener[n].got, r) BY <3>6
      <4>4. QED BY <1>2, <4>1, <4>2, <4>3
    <3>8. QED BY <1>1, <2>3, <2>5, <3>6, <3>7
  <2>8. listener[n].got \in Heads BY DEF TypeInv, Calls
  <2>9. QED BY <2>6, <2>7, <2>8 DEF Heads
<1>5. CASE Timeout(n)
  <2>1. in' = in /\ \A m \in Node : m # n => listener'[m] = listener[m]
    BY <1>5 DEF Timeout, Deal, TypeInv
  <2>2. CASE listener[n].got = <<>>
    <3>1. counted' = counted /\ listener'[n].got = <<>>
      BY <1>5, <2>2 DEF Timeout, NotReading, TypeInv
    <3>2. QED BY <1>1, <1>2, <2>1, <2>2, <3>1 DEF CountTypes
  <2>3. CASE \E g \in Pieces : listener[n].got = <<g>>
    <3>1. PICK g \in Pieces : listener[n].got = <<g>> BY <2>3
    <3>2. listener[n].got # <<>> /\ listener[n].got[1] = g BY <3>1
    <3>3. Deal(n, listener[n].got) BY <1>5, <3>2 DEF Timeout
    <3>4. /\ counted' \in [Node -> [Rounds -> Nat]] /\ listener'[n].got = <<>>
          /\ counted'[n][0] = counted[n][0]
          /\ \A r \in Rounds : counted'[n][r] <= counted[n][r] + Copies(listener[n].got, r)
          /\ \A m \in Node : m # n => counted'[m] = counted[m]
      BY <3>1, <3>2, <3>3, DealtWith
    <3>5. ASSUME NEW r \in Rounds
          PROVE  counted'[n][r] + Copies(listener'[n].got, r) + Copies(in'[n], r)
                     <= counted[n][r] + Copies(listener[n].got, r) + Copies(in[n], r)
      <4>1. counted'[n][r] \in Nat /\ Copies(listener'[n].got, r) = 0 BY <1>2, <3>4
      <4>2. counted'[n][r] <= counted[n][r] + Copies(listener[n].got, r) BY <3>4
      <4>3. QED BY <1>2, <2>1, <4>1, <4>2
    <3>6. QED BY <1>1, <2>1, <3>4, <3>5
  <2>4. listener[n].got \in Heads BY DEF TypeInv, Calls
  <2>5. QED BY <2>2, <2>3, <2>4 DEF Heads
<1>6. QED BY <1>3, <1>4, <1>5 DEF ListenThread

LEMMA CountsKept ==
  ASSUME TypeInv, TypeInv', CountTypes, NEW m \in Node, CountedOnce(m), [Next]_vars
  PROVE  CountTypes' /\ CountedOnce(m)'
<1> DEFINE s == Peer(m)
<1>1. /\ s \in Node /\ s # m /\ s' = s /\ Peer(s) = m
      /\ \A n \in Node : n = m \/ n = s
  BY PeerOfNode DEF Peer
<1>2. \A r \in Rounds : /\ counted[m][r] \in Nat /\ sent[s][r] \in Nat
                        /\ Copies(listener[m].got, r) \in Nat /\ Copies(in[m], r) \in Nat
                        /\ Copies(out[s], r) \in Nat /\ Copies(<<>>, r) = 0
  BY <1>1, OnItsWayType, CopiesEmpty DEF CountTypes
<1>3. \A r \in Rounds : /\ Copies(listener'[m].got, r) \in Nat /\ Copies(in'[m], r) \in Nat
                        /\ Copies(out'[s], r) \in Nat
  <2>1. listener'[m].got \in Seq(Pieces)
    <3>1. listener'[m].got \in Heads BY DEF TypeInv, Calls, Heads
    <3>2. <<>> \in Seq(Pieces) /\ \A p \in Pieces : <<p>> \in Seq(Pieces) OBVIOUS
    <3>3. QED BY <3>1, <3>2 DEF Heads
  <2>2. in'[m] \in Seq(Pieces) /\ out'[s] \in Seq(Pieces) BY <1>1 DEF TypeInv
  <2>3. QED BY <2>1, <2>2, CopiesType
\* The part of the invariant that each action is left to show.
<1> DEFINE Balanced(r) ==
        counted'[m][r] + Copies(listener'[m].got, r) + Copies(in'[m], r)
                + Copies(out'[s], r) + sent[s][r]
            <= counted[m][r] + Copies(listener[m].got, r) + Copies(in[m], r)
                + Copies(out[s], r) + sent'[s][r]
<1>4. SUFFICES /\ CountTypes' /\ counted'[m][0] = counted[m][0]
               /\ \A r \in Rounds \ {0} : Balanced(r)
  <2> SUFFICES ASSUME CountTypes', counted'[m][0] = counted[m][0],
                      \A r \in Rounds \ {0} : Balanced(r)
               PROVE  CountedOnce(m)'
    OBVIOUS
  <2>1. ASSUME NEW r \in Rounds
        PROVE  /\ OnItsWay(m, r) = Copies(listener[m].got, r) + Copies(in[m], r)
                                       + Copies(out[s], r)
               /\ OnItsWay(m, r)' = Copies(listener'[m].got, r) + Copies(in'[m], r)
                                       + Copies(out'[s], r)
    BY DEF OnItsWay, Peer
  <2>2. ASSUME NEW r \in Rounds \ {0}
        PROVE  /\ OnItsWay(m, r) \in Nat /\ OnItsWay(m, r)' \in Nat
               /\ counted'[m][r] + OnItsWay(m, r)' + sent[s][r]
                      <= counted[m][r] + OnItsWay(m, r) + sent'[s][r]
    <3>1. counted'[m][r] \in Nat /\ sent'[s][r] \in Nat BY <1>1 DEF CountTypes
    <3>2. Balanced(r) OBVIOUS
    <3>3. /\ counted[m][r] \in Nat /\ sent[s][r] \in Nat
          /\ Copies(listener[m].got, r) \in Nat /\ Copies(in[m], r) \in Nat
          /\ Copies(out[s], r) \in Nat /\ Copies(listener'[m].got, r) \in Nat
          /\ Copies(in'[m], r) \in Nat /\ Copies(out'[s], r) \in Nat
      BY <1>2, <1>3
    <3>4. /\ OnItsWay(m, r) = Copies(listener[m].got, r) + Copies(in[m], r)
                                   + Copies(out[s], r)
          /\ OnItsWay(m, r)' = Copies(listener'[m].got, r) + Copies(in'[m], r)
                                   + Copies(out'[s], r)
      BY <2>1
    <3>5. QED BY <3>1, <3>2, <3>3, <3>4
  <2>3. QED BY <2>2, CountedStill
<1>5. ASSUME counted' = counted, sent' = sent,
             \A r \in Rounds : Copies(listener'[m].got, r) <= Copies(listener[m].got, r),
             \A r \in Rounds : Copies(in'[m], r) + Copies(out'[s], r)
                                   <= Copies(in[m], r) + Copies(out[s], r)
      PROVE  CountTypes' /\ counted'[m][0] = counted[m][0] /\ \A r \in Rounds : Balanced(r)
  <2>1. CountTypes' BY <1>5 DEF CountTypes
  <2>2. ASSUME NEW r \in Rounds PROVE Balanced(r)
    BY <1>2, <1>3, <1>5
  <2>3. QED BY <1>5, <2>1, <2>2
<1>6. CASE Tick
  BY <1>2, <1>5, <1>6 DEF Tick
<1>7. ASSUME NEW n \in Node, ListenThread(n)
      PROVE  CountTypes' /\ counted'[m][0] = counted[m][0] /\ \A r \in Rounds : Balanced(r)
  <2>1. /\ counted' \in [Node -> [Rounds -> Nat]] /\ sent' = sent /\ out' = out
        /\ counted'[n][0] = counted[n][0]
        /\ \A r \in Rounds :
               counted'[n][r] + Copies(listener'[n].got, r) + Copies(in'[n], r)
                   <= counted[n][r] + Copies(listener[n].got, r) + Copies(in[n], r)
        /\ \A k \in Node : k # n => /\ counted'[k] = counted[k] /\ in'[k] = in[k]
                                    /\ listener'[k] = listener[k]
    BY <1>7, ListenThreadCounts
  <2>2. CountTypes' BY <2>1 DEF CountTypes
  <2>3. CASE n = m
    <3>1. ASSUME NEW r \in Rounds PROVE Balanced(r)
      <4>1. /\ counted'[m][r] \in Nat /\ sent'[s][r] = sent[s][r]
            /\ Copies(out'[s], r) = Copies(out[s], r)
            /\ counted'[m][r] + Copies(listener'[m].got, r) + Copies(in'[m], r)
                   <= counted[m][r] + Copies(listener[m].got, r) + Copies(in[m], r)
        BY <2>1, <2>3
      <4>2. /\ counted[m][r] \in Nat /\ sent[s][r] \in Nat
            /\ Copies(listener[m].got, r) \in Nat /\ Copies(in[m], r) \in Nat
            /\ Copies(out[s], r) \in Nat /\ Copies(listener'[m].got, r) \in Nat
            /\ Copies(in'[m], r) \in Nat
        BY <1>2, <1>3
      <4>3. QED BY <4>1, <4>2
    <3>2. QED BY <2>1, <2>2, <2>3, <3>1
  <2>4. CASE n # m
    <3>1. ASSUME NEW r \in Rounds PROVE Balanced(r)
      BY <1>2, <2>1, <2>4
    <3>2. QED BY <2>1, <2>2, <2>4, <3>1
  <2>5. QED BY <2>3, <2>4
<1>8. ASSUME NEW n \in Node, NEW q \in Rounds, send_message(n, q), counted' = counted,
             listener' = listener, in' = in
      PROVE  CountTypes' /\ counted'[m][0] = counted[m][0]
             /\ \A r \in Rounds \ {0} : Balanced(r)
  <2>1. /\ sent' \in [Node -> [Rounds -> Nat]]
        /\ \A k \in Node : k # n => sent'[k] = sent[k] /\ out'[k] = out[k]
        /\ \A r \in Rounds :
               r # 0 => Copies(out'[n], r) + sent[n][r] <= Copies(out[n], r) + sent'[n][r]
    BY <1>8, FrameWritten
  <2>2. CountTypes' BY <1>8, <2>1 DEF CountTypes
  <2>3. ASSUME NEW r \in Rounds \ {0} PROVE Balanced(r)
    <3>1. sent'[s][r] \in Nat BY <1>1, <2>1
    <3>2. CASE n = s
      <4>1. Copies(out'[s], r) + sent[s][r] <= Copies(out[s], r) + sent'[s][r]
        BY <2>1, <3>2
      <4>2. /\ counted[m][r] \in Nat /\ sent[s][r] \in Nat
            /\ Copies(listener[m].got, r) \in Nat /\ Copies(in[m], r) \in Nat
            /\ Copies(out[s], r) \in Nat /\ Copies(out'[s], r) \in Nat
        BY <1>2, <1>3
      <4>3. QED BY <1>8, <3>1, <4>1, <4>2
    <3>3. CASE n # s BY <1>1, <1>2, <1>8, <2>1, <3>3
    <3>4. QED BY <3>2, <3>3
  <2>4. QED BY <1>8, <2>2, <2>3
<1>9. ASSUME NEW n \in Node, TestThread(n)
      PROVE  CountTypes' /\ counted'[m][0] = counted[m][0]
             /\ \A r \in Rounds \ {0} : Balanced(r)
  <2>1. CASE SendPackage(n)
    <3>1. round_array[n] \in Rounds BY DEF TypeInv
    <3>2. QED BY <1>8, <2>1, <3>1 DEF SendPackage
  <2>2. CASE Sync(n) BY <1>8, <2>2, MaxRoundType DEF Sync
  <2>3. CASE BeginRound(n) \/ EndRound(n)
    <3>1. counted' = counted /\ sent' = sent /\ listener' = listener /\ in' = in /\ out' = out
      BY <2>3 DEF BeginRound, EndRound
    <3>2. QED BY <1>2, <1>5, <3>1
  <2>4. QED BY <1>9, <2>1, <2>2, <2>3 DEF TestThread
<1>10. ASSUME NEW n \in Node, Transmit(n) \/ LoseByte(n)
       PROVE  CountTypes' /\ counted'[m][0] = counted[m][0] /\ \A r \in Rounds : Balanced(r)
  <2>1. /\ counted' = counted /\ sent' = sent /\ listener' = listener /\ out[n] # <<>>
        /\ out' = [out EXCEPT ![n] = Tail(@)]
        /\ in' = in \/ in' = [in EXCEPT ![Peer(n)] = Append(@, out[n][1])]
    BY <1>10 DEF Transmit, LoseByte, Shift
  <2>2. CASE n = s
    <3>1. /\ out[s] \in Seq(Pieces) /\ in[m] \in Seq(Pieces) /\ out'[s] = Tail(out[s])
          /\ in'[m] = in[m] \/ in'[m] = Append(in[m], out[s][1])
      BY <1>1, <2>1, <2>2 DEF TypeInv
    <3>2. out[s][1] \in Pieces BY <2>1, <2>2, <3>1
    <3>3. ASSUME NEW r \in Rounds
          PROVE  Copies(in'[m], r) + Copies(out'[s], r) <= Copies(in[m], r) + Copies(out[s], r)
      <4>1. Copies(out'[s], r) + (IF out[s][1] = Text(r) THEN 1 ELSE 0) <= Copies(out[s], r)
        BY <2>1, <2>2, <3>1, CopiesTail
      <4>2. Copies(in'[m], r) <= Copies(in[m], r) + IF out[s][1] = Text(r) THEN 1 ELSE 0
        <5>1. Copies(in[m], r) \in Nat BY <1>2
        <5>2. CASE in'[m] = in[m] BY <5>1, <5>2
        <5>3. CASE in'[m] = Append(in[m], out[s][1])
          <6>1. Copies(Append(in[m], out[s][1]), r)
                    = Copies(in[m], r) + IF out[s][1] = Text(r) THEN 1 ELSE 0
            BY <3>1, <3>2, CopiesAppend
          <6>2. QED BY <5>1, <5>3, <6>1
        <5>4. QED BY <3>1, <5>2, <5>3
      <4>3. QED BY <1>2, <1>3, <4>1, <4>2
    <3>4. QED BY <1>2, <1>5, <2>1, <3>3
  <2>3. CASE n # s
    <3>1. Peer(n) # m BY <1>1, <2>3, PeerOfNode
    <3>2. in'[m] = in[m] /\ out'[s] = out[s]
      BY <1>1, <2>1, <2>3, <3>1 DEF TypeInv
    <3>3. QED BY <1>2, <1>5, <2>1, <3>2
  <2>4. QED BY <2>2, <2>3
<1>11. ASSUME NEW n \in Node, Crash(n) \/ Start(n)
       PROVE  CountTypes' /\ counted'[m][0] = counted[m][0] /\ \A r \in Rounds : Balanced(r)
  <2>1. counted' = counted /\ sent' = sent BY <1>11 DEF Crash, Start
  <2>2. listener'[m].got = listener[m].got \/ listener'[m].got = <<>>
    <3>1. listener' = listener \/ listener' = [listener EXCEPT ![n] = NotReading]
      BY <1>11 DEF Crash, Start
    <3>2. NotReading.got = <<>> BY DEF NotReading
    <3>3. listener'[m] = listener[m] \/ listener'[m] = NotReading
      BY <3>1 DEF TypeInv
    <3>4. CASE listener'[m] = listener[m] BY <3>4
    <3>5. CASE listener'[m] = NotReading BY <3>2, <3>5
    <3>6. QED BY <3>3, <3>4, <3>5
  <2>3. /\ in'[m] = in[m] \/ in'[m] = <<>>
        /\ out'[s] = out[s] \/ out'[s] = <<>>
    BY <1>1, <1>11 DEF Crash, Start, TypeInv
  <2>4. ASSUME NEW r \in Rounds
        PROVE  /\ Copies(listener'[m].got, r) <= Copies(listener[m].got, r)
               /\ Copies(in'[m], r) + Copies(out'[s], r) <= Copies(in[m], r) + Copies(out[s], r)
    <3>1. Copies(listener'[m].got, r) <= Copies(listener[m].got, r) BY <1>2, <2>2
    <3>2. Copies(in'[m], r) <= Copies(in[m], r) BY <1>2, <2>3
    <3>3. Copies(out'[s], r) <= Copies(out[s], r) BY <1>2, <2>3
    <3>4. QED BY <1>2, <1>3, <3>1, <3>2, <3>3
  <2>5. QED BY <1>5, <2>1, <2>4
<1>12. CASE UNCHANGED vars
  BY <1>2, <1>5, <1>12 DEF vars
<1>13. QED BY <1>6, <1>7, <1>9, <1>10, <1>11, <1>12 DEF Next

LEMMA CountsHold == Spec => [](CountTypes /\ \A n \in Node : SentOnce(n) /\ CountedOnce(n))
<1> DEFINE I == CountTypes /\ \A n \in Node : SentOnce(n) /\ CountedOnce(n)
<1>1. Init /\ TypeInv => I
  <2> SUFFICES ASSUME Init, TypeInv PROVE I OBVIOUS
  <2>1. \A r \in Rounds : r \in Nat BY MaxRoundType DEF Rounds
  <2>2. CountTypes BY DEF Init, CountTypes
  <2>3. ASSUME NEW n \in Node PROVE SentOnce(n)
    <3>1. 0 <= CurrentRound(n) BY RoundsOfClock DEF TypeInv
    <3>2. QED BY <3>1, Constants DEF Init, SentOnce
  <2>4. ASSUME NEW n \in Node PROVE CountedOnce(n)
    <3>1. Peer(n) \in Node BY PeerOfNode
    <3>2. ASSUME NEW r \in Rounds PROVE OnItsWay(n, r) = 0
      <4>1. Copies(<<>>, r) = 0 BY CopiesEmpty
      <4>2. QED BY <3>1, <4>1 DEF Init, OnItsWay, NotReading
    <3>3. QED BY <3>1, <3>2, MaxRoundType DEF Init, CountedOnce
  <2>5. QED BY <2>2, <2>3, <2>4
<1>2. I /\ TypeInv /\ TypeInv' /\ [Next]_vars => I'
  <2> SUFFICES ASSUME I, TypeInv, TypeInv', [Next]_vars PROVE I' OBVIOUS
  <2>1. ASSUME NEW n \in Node PROVE SentOnce(n)' BY SentKept
  <2>2. ASSUME NEW n \in Node PROVE CountTypes' /\ CountedOnce(n)' BY CountsKept
  <2>3. CountTypes'
    <3>1. \E n \in Node : TRUE
      <4> SUFFICES ASSUME Node = {} PROVE FALSE OBVIOUS
      <4>1. QED BY HalfDuplexAssumption, FS_EmptySet
    <3>2. QED BY <2>2, <3>1
  <2>4. QED BY <2>1, <2>2, <2>3
<1>3. QED BY <1>1, <1>2, TypesHold, PTL DEF Spec

LEMMA CountBelowSent ==
  ASSUME TypeInv, CountTypes, NEW n \in Node, CountedOnce(n), NEW r \in Rounds
  PROVE  counted[n][r] <= sent[Peer(n)][r]
<1>1. counted[n][r] \in Nat /\ sent[Peer(n)][r] \in Nat
  BY PeerOfNode DEF CountTypes
<1>2. CASE r = 0 BY <1>1, <1>2 DEF CountedOnce
<1>3. CASE r # 0
  <2>1. counted[n][r] + OnItsWay(n, r) <= sent[Peer(n)][r] BY <1>3 DEF CountedOnce
  <2>2. OnItsWay(n, r) \in Nat BY OnItsWayType DEF OnItsWay
  <2>3. QED BY <1>1, <2>1, <2>2
<1>4. QED BY <1>2, <1>3

\* No frame is counted that was not sent in its round, and none twice, whatever
\* is lost and whoever is restarted.
THEOREM NoneInvented == Spec => []CountedWereSent
<1>1. TypeInv /\ (CountTypes /\ \A n \in Node : SentOnce(n) /\ CountedOnce(n))
          => CountedWereSent
  BY CountBelowSent DEF CountedWereSent
<1>2. QED BY <1>1, TypesHold, CountsHold, PTL

\* Every variable keeps its type, and no node sends or counts more packages in a
\* round than a round has.
THEOREM TypeCorrect == Spec => []TypeOK
<1>1. TypeInv /\ (CountTypes /\ \A n \in Node : SentOnce(n) /\ CountedOnce(n)) => TypeOK
  <2> SUFFICES ASSUME TypeInv, CountTypes,
                      \A n \in Node : SentOnce(n) /\ CountedOnce(n)
               PROVE  TypeOK
    OBVIOUS
  <2>1. ASSUME NEW n \in Node, NEW r \in Rounds
        PROVE  counted[n][r] \in 0..Packages /\ sent[n][r] \in 0..Packages
    <3>1. Peer(n) \in Node BY PeerOfNode
    <3>2. counted[n][r] \in Nat /\ sent[n][r] \in Nat /\ sent[Peer(n)][r] \in Nat
      BY <3>1 DEF CountTypes
    <3>3. sent[n][r] <= Packages /\ sent[Peer(n)][r] <= Packages BY <3>1 DEF SentOnce
    <3>4. counted[n][r] <= sent[Peer(n)][r] BY CountBelowSent
    <3>5. QED BY <3>2, <3>3, <3>4, Constants
  <2>2. ASSUME NEW n \in Node
        PROVE  /\ listener[n].reading \in BOOLEAN
               /\ listener[n].deadline \in 0..Horizon + RoundLen
               /\ listener[n].got \in {<<>>} \cup {<<p>> : p \in Pieces}
    <3>1. listener[n] \in Calls BY DEF TypeInv
    <3>2. QED BY <3>1 DEF Calls, Heads
  <2>3. QED BY <2>1, <2>2 DEF TypeInv, TypeOK, TesterTypes, TestThreads, Entries
<1>2. QED BY <1>1, TypesHold, CountsHold, PTL
-----------------------------------------------------------------------------
(***************************************************************************)
(* Harm.  What is on its way from s to n is one sequence of pieces, from   *)
(* the call of the listen thread over the input buffer to the port of s;   *)
(* n takes the pieces in its order, two by two as long as no fault makes   *)
(* that go wrong.                                                          *)
(***************************************************************************)
Line(n, s) == (listener[n].got \o in[n]) \o out[s]
Framed(q)  == /\ Len(q) % 2 = 0
              /\ \A i \in 1..Len(q) : q[i] = Padding <=> i % 2 = 0

(* Rounds of which nothing is claimed: those hurt, and for a node that is  *)
(* down all since it ended.                                                *)
Excused(n) == hurt[n] \cup {r \in Rounds : since[n] # 0 /\ since[n] <= r}

NextTurn(n, s) == CurrentRound(n) + IF HasTurn(s, CurrentRound(n)) THEN 2 ELSE 1

ListenerInv(n) ==
    /\ since[n] <= CurrentRound(n)
    /\ ~listener[n].reading => listener[n].got = <<>>
    /\ since[n] # 0 => ~listener[n].reading

(* Pieces wait in the input buffer only in the turn of their writer, when  *)
(* the clock of the receiver has not yet reached it or is in it, too.      *)
WaitsForTurn(n, s) ==
    since[n] = 0 /\ in[n] # <<>> =>
        /\ HasTurn(s, CurrentRound(s))
        /\ CurrentRound(n) = CurrentRound(s) \/ CurrentRound(n) + 1 = CurrentRound(s)

(* A call that begins in a turn of s lasts into the next round and, by the *)
(* clock of either node, ends before the next turn.                        *)
CallInTime(n, s) ==
    listener[n].reading =>
        /\ now <= listener[n].deadline
        /\ HasTurn(s, CurrentRound(n)) =>
               Begins(CurrentRound(n) + 1) <= listener[n].deadline + ahead[n]
        /\ listener[n].deadline + ahead[n] < Begins(NextTurn(n, s))
        /\ NextTurn(n, s) \notin Excused(n) =>
               listener[n].deadline + ahead[s] < Begins(NextTurn(n, s))

(* The next call begins early: s is not yet beyond the round of n.         *)
CallsEarly(n, s) ==
    since[n] = 0 /\ ~listener[n].reading /\ HasTurn(s, CurrentRound(n))
            /\ CurrentRound(n) + 2 \notin Excused(n)
        => CurrentRound(s) <= CurrentRound(n)

NothingRead(n, s) ==
    HasTurn(s, CurrentRound(n)) /\ CurrentRound(s) + 1 = CurrentRound(n)
        => listener[n].got = <<>>

FramesWhole(n, s) ==
    HasTurn(s, CurrentRound(s)) /\ CurrentRound(s) \notin Excused(n)
        => Framed(Line(n, s))

OfThisRound(n, s) ==
    \A r \in Rounds \ {0} : \A i \in 1..Len(Line(n, s)) :
        Line(n, s)[i] = Text(r) =>
            /\ r <= CurrentRound(s)
            /\ r \notin Excused(n) => /\ r = CurrentRound(s) /\ HasTurn(s, r)
                                      /\ CurrentRound(n) <= r

NoneLost(n, s) ==
    \A r \in Rounds \ {0} :
        r \notin Excused(n) => counted[n][r] + Copies(Line(n, s), r) = sent[s][r]

LineInv(n, s) ==
    /\ ListenerInv(n)
    /\ WaitsForTurn(n, s)
    /\ CallInTime(n, s)
    /\ CallsEarly(n, s)
    /\ NothingRead(n, s)
    /\ FramesWhole(n, s)
    /\ OfThisRound(n, s)
    /\ NoneLost(n, s)

\* Sequences of pieces.
LEMMA CopiesNone ==
  ASSUME NEW q \in Seq(Pieces), NEW r
  PROVE  Copies(q, r) = 0 <=> \A i \in 1..Len(q) : q[i] # Text(r)
<1>1. IsFiniteSet(Holding(q, r)) BY CopiesType
<1>2. Copies(q, r) = 0 <=> Holding(q, r) = {} BY <1>1, FS_EmptySet DEF Copies
<1>3. QED BY <1>2 DEF Holding

LEMMA CopiesTailIs ==
  ASSUME NEW q \in Seq(Pieces), q # <<>>, NEW r
  PROVE  Copies(q, r) = Copies(Tail(q), r) + IF q[1] = Text(r) THEN 1 ELSE 0
<1> DEFINE later == Holding(q, r) \ {1}
           f == [i \in later |-> i - 1]
<1>1. /\ Tail(q) \in Seq(Pieces) /\ Len(Tail(q)) = Len(q) - 1 /\ Len(q) \in Nat
      /\ \A i \in 1..Len(q) - 1 : Tail(q)[i] = q[i + 1]
      /\ 1 \in 1..Len(q)
  OBVIOUS
<1>2. /\ IsFiniteSet(Holding(q, r)) /\ Copies(q, r) \in Nat
      /\ IsFiniteSet(Holding(Tail(q), r)) /\ Copies(Tail(q), r) \in Nat
  BY <1>1, CopiesType
<1>3. ASSUME NEW i \in later PROVE f[i] \in Holding(Tail(q), r)
  BY <1>1, <1>3 DEF Holding
<1>4. ASSUME NEW i \in later, NEW j \in later, f[i] = f[j]
      PROVE  i = j
  BY <1>1, <1>4 DEF Holding
<1>5. f \in Injection(later, Holding(Tail(q), r))
  BY <1>3, <1>4 DEF Injection, IsInjective
<1>6. /\ IsFiniteSet(later)
      /\ Cardinality(later) = IF 1 \in Holding(q, r) THEN Copies(q, r) - 1 ELSE Copies(q, r)
  BY <1>2, FS_RemoveElement DEF Copies
<1>7. 1 \in Holding(q, r) <=> q[1] = Text(r) BY <1>1 DEF Holding
<1> HIDE DEF later, f
<1>8. Cardinality(later) <= Copies(Tail(q), r) BY <1>2, <1>5, <1>6, FS_Injection DEF Copies
<1>9. Copies(Tail(q), r) + (IF q[1] = Text(r) THEN 1 ELSE 0) <= Copies(q, r) BY CopiesTail
<1>10. Cardinality(later) \in Nat BY <1>6, FS_CardinalityType
<1>11. QED BY <1>2, <1>6, <1>7, <1>8, <1>9, <1>10

LEMMA FramedEmpty == Framed(<<>>)
BY DEF Framed

LEMMA FramedShort ==
  ASSUME NEW q, q \in Heads, Framed(q)
  PROVE  q = <<>>
<1> SUFFICES ASSUME NEW p \in Pieces, q = <<p>> PROVE FALSE BY DEF Heads
<1>1. Len(<<p>>) = 1 OBVIOUS
<1>2. QED BY <1>1 DEF Framed

LEMMA FramedMore ==
  ASSUME NEW q \in Seq(Pieces), NEW r \in Rounds, Framed(q)
  PROVE  Framed(q \o FrameOf(r))
<1>1. Text(r) \in Pieces /\ Padding \in Pieces /\ Text(r) # Padding
  BY DEF Pieces, Text, Padding
<1>2. /\ FrameOf(r) \in Seq(Pieces) /\ Len(FrameOf(r)) = 2
      /\ FrameOf(r)[1] = Text(r) /\ FrameOf(r)[2] = Padding
  BY <1>1 DEF FrameOf
<1>3. /\ Len(q \o FrameOf(r)) = Len(q) + 2 /\ Len(q) \in Nat
      /\ \A i \in 1..Len(q) + 2 :
             (q \o FrameOf(r))[i] = IF i <= Len(q) THEN q[i] ELSE FrameOf(r)[i - Len(q)]
  BY <1>2, ConcatProperties, LenProperties
<1>4. (Len(q) + 2) % 2 = 0 /\ (Len(q) + 1) % 2 # 0 BY <1>3 DEF Framed
<1>5. ASSUME NEW i \in 1..Len(q) + 2
      PROVE  (q \o FrameOf(r))[i] = Padding <=> i % 2 = 0
  <2>1. CASE i <= Len(q) BY <1>3, <2>1 DEF Framed
  <2>2. CASE i = Len(q) + 1 BY <1>1, <1>2, <1>3, <1>4, <2>2
  <2>3. CASE i = Len(q) + 2 BY <1>2, <1>3, <1>4, <2>3
  <2>4. QED BY <1>3, <2>1, <2>2, <2>3
<1>6. QED BY <1>3, <1>4, <1>5 DEF Framed

LEMMA TailOfTail ==
  ASSUME NEW q \in Seq(Pieces), Len(q) >= 2
  PROVE  /\ Tail(q) \in Seq(Pieces) /\ Tail(q) # <<>> /\ Tail(q)[1] = q[2]
         /\ Tail(Tail(q)) \in Seq(Pieces) /\ Len(Tail(Tail(q))) = Len(q) - 2
         /\ \A i \in 1..Len(q) - 2 : Tail(Tail(q))[i] = q[i + 2]
<1>1. q # <<>> /\ Len(q) \in Nat BY EmptySeq, LenProperties
<1>2. /\ Tail(q) \in Seq(Pieces) /\ Len(Tail(q)) = Len(q) - 1
      /\ \A i \in 1..Len(q) - 1 : Tail(q)[i] = q[i + 1]
  BY <1>1, HeadTailProperties
<1>3. Tail(q) # <<>>
  <2>1. Len(Tail(q)) # 0 BY <1>1, <1>2
  <2>2. Len(<<>>) = 0 OBVIOUS
  <2>3. QED BY <2>1, <2>2
<1>4. /\ Tail(Tail(q)) \in Seq(Pieces) /\ Len(Tail(Tail(q))) = Len(q) - 2
      /\ \A i \in 1..Len(q) - 2 : Tail(Tail(q))[i] = Tail(q)[i + 1]
  BY <1>1, <1>2, <1>3, HeadTailProperties
<1>5. QED BY <1>1, <1>2, <1>3, <1>4

LEMMA FramedLess ==
  ASSUME NEW q \in Seq(Pieces), Len(q) >= 2, Framed(q)
  PROVE  Framed(Tail(Tail(q)))
<1>1. /\ Len(Tail(Tail(q))) = Len(q) - 2 /\ Len(q) \in Nat
      /\ \A i \in 1..Len(q) - 2 : Tail(Tail(q))[i] = q[i + 2]
  BY TailOfTail, LenProperties
<1>2. (Len(q) - 2) % 2 = 0 BY <1>1 DEF Framed
<1>3. ASSUME NEW i \in 1..Len(q) - 2
      PROVE  Tail(Tail(q))[i] = Padding <=> i % 2 = 0
  <2>1. i + 2 \in 1..Len(q) /\ (i + 2) % 2 = i % 2 BY <1>1
  <2>2. QED BY <1>1, <2>1 DEF Framed
<1>4. QED BY <1>1, <1>2, <1>3 DEF Framed

\* How the line changes.
LEMMA LineType ==
  ASSUME TypeInv, NEW n \in Node, NEW s \in Node
  PROVE  /\ listener[n].got \in Heads /\ listener[n].got \in Seq(Pieces)
         /\ in[n] \in Seq(Pieces) /\ out[s] \in Seq(Pieces)
         /\ Line(n, s) \in Seq(Pieces) /\ Len(Line(n, s)) \in Nat
<1>1. listener[n].got \in Heads BY DEF TypeInv, Calls
<1>2. listener[n].got \in Seq(Pieces)
  <2>1. <<>> \in Seq(Pieces) /\ \A p \in Pieces : <<p>> \in Seq(Pieces) OBVIOUS
  <2>2. QED BY <1>1, <2>1 DEF Heads
<1>3. in[n] \in Seq(Pieces) /\ out[s] \in Seq(Pieces) BY DEF TypeInv
<1>4. (listener[n].got \o in[n]) \o out[s] \in Seq(Pieces)
  BY <1>2, <1>3, ConcatProperties
<1>5. QED BY <1>1, <1>2, <1>3, <1>4, LenProperties DEF Line

LEMMA Shifted ==
  ASSUME NEW g \in Seq(Pieces), NEW q \in Seq(Pieces), NEW u \in Seq(Pieces), u # <<>>
  PROVE  (g \o Append(q, u[1])) \o Tail(u) = (g \o q) \o u
<1> DEFINE x == u[1]
<1>1. x \in Pieces /\ Tail(u) \in Seq(Pieces) /\ u = <<x>> \o Tail(u)
  OBVIOUS
<1>2. Append(q, x) = q \o <<x>> /\ <<x>> \in Seq(Pieces) BY <1>1, AppendIsConcat
<1> HIDE DEF x
<1>3. g \o (q \o <<x>>) = (g \o q) \o <<x>> BY <1>2, ConcatAssociative
<1>4. g \o q \in Seq(Pieces) BY ConcatProperties
<1>5. ((g \o q) \o <<x>>) \o Tail(u) = (g \o q) \o (<<x>> \o Tail(u))
  BY <1>1, <1>2, <1>4, ConcatAssociative
<1>6. QED BY <1>1, <1>2, <1>3, <1>5 DEF x

LEMMA Taken ==
  ASSUME NEW q \in Seq(Pieces), NEW u \in Seq(Pieces), q # <<>>
  PROVE  /\ (<<q[1]>> \o Tail(q)) \o u = (<<>> \o q) \o u
<1>1. q = <<q[1]>> \o Tail(q) /\ <<>> \o q = q OBVIOUS
<1>2. QED BY <1>1

LEMMA ConsIsLine ==
  ASSUME NEW g \in Pieces, NEW u \in Seq(Pieces)
  PROVE  /\ <<g>> \o u \in Seq(Pieces) /\ Len(<<g>> \o u) = Len(u) + 1
         /\ (<<g>> \o u)[1] = g /\ Tail(<<g>> \o u) = u /\ <<g>> \o u # <<>>
<1>1. <<g>> \in Seq(Pieces) /\ Len(<<g>>) = 1 /\ <<g>>[1] = g OBVIOUS
<1>2. /\ <<g>> \o u \in Seq(Pieces) /\ Len(<<g>> \o u) = 1 + Len(u)
      /\ \A i \in 1..1 + Len(u) :
             (<<g>> \o u)[i] = IF i <= 1 THEN <<g>>[i] ELSE u[i - 1]
      /\ Len(u) \in Nat
  BY <1>1, ConcatProperties, LenProperties
<1>3. (<<g>> \o u)[1] = g BY <1>1, <1>2
<1>4. <<g>> \o u # <<>>
  <2>1. Len(<<>>) = 0 OBVIOUS
  <2>2. QED BY <1>2, <2>1
<1>5. /\ Tail(<<g>> \o u) \in Seq(Pieces) /\ Len(Tail(<<g>> \o u)) = Len(u)
      /\ \A i \in 1..Len(u) : Tail(<<g>> \o u)[i] = (<<g>> \o u)[i + 1]
  <2>1. /\ Tail(<<g>> \o u) \in Seq(Pieces)
        /\ Len(Tail(<<g>> \o u)) = Len(<<g>> \o u) - 1
        /\ \A i \in 1..Len(Tail(<<g>> \o u)) : Tail(<<g>> \o u)[i] = (<<g>> \o u)[i + 1]
    BY <1>2, <1>4, HeadTailProperties
  <2>2. QED BY <1>2, <2>1
<1>6. \A i \in 1..Len(u) : Tail(<<g>> \o u)[i] = u[i] BY <1>2, <1>5
<1>7. Tail(<<g>> \o u) = u BY <1>5, <1>6, SeqEqual
<1>8. QED BY <1>2, <1>3, <1>4, <1>7

LEMMA Dealt ==
  ASSUME NEW c, NEW g \in Pieces, c = <<g>>, NEW q \in Seq(Pieces), NEW u \in Seq(Pieces),
         NEW l, l = (c \o q) \o u
  PROVE  /\ l \in Seq(Pieces) /\ l # <<>> /\ l[1] = g /\ Tail(l) = q \o u
         /\ q # <<>> => /\ Len(l) >= 2 /\ l[2] = q[1]
                        /\ Tail(Tail(l)) = Tail(q) \o u
<1> DEFINE m == q \o u
<1>1. /\ l = <<g>> \o m /\ m \in Seq(Pieces)
      /\ Len(m) = Len(q) + Len(u) /\ Len(q) \in Nat /\ Len(u) \in Nat
  <2>1. <<g>> \in Seq(Pieces) OBVIOUS
  <2>2. QED BY <2>1, ConcatAssociative, ConcatProperties, LenProperties
<1> HIDE DEF m
<1>2. /\ l \in Seq(Pieces) /\ Len(l) = Len(m) + 1 /\ l[1] = g /\ Tail(l) = m /\ l # <<>>
  BY <1>1, ConsIsLine
<1>3. ASSUME q # <<>>
      PROVE  Len(l) >= 2 /\ l[2] = q[1] /\ Tail(Tail(l)) = Tail(q) \o u
  <2> DEFINE x == q[1]
  <2>1. x \in Pieces /\ Tail(q) \in Seq(Pieces) /\ q = <<x>> \o Tail(q)
    BY <1>3
  <2> HIDE DEF x
  <2>2. m = <<x>> \o (Tail(q) \o u) /\ Tail(q) \o u \in Seq(Pieces)
    <3>1. <<x>> \in Seq(Pieces) BY <2>1
    <3>2. QED BY <2>1, <3>1, ConcatAssociative, ConcatProperties DEF m
  <2>3. /\ m[1] = x /\ Tail(m) = Tail(q) \o u /\ Len(m) = Len(Tail(q) \o u) + 1
        /\ Len(Tail(q) \o u) \in Nat
    BY <2>1, <2>2, ConsIsLine, LenProperties
  <2>4. Len(l) >= 2 BY <1>2, <2>3
  <2>5. Tail(l)[1] = l[2] BY <1>2, <2>4, TailOfTail
  <2>6. QED BY <1>2, <2>3, <2>4, <2>5 DEF x
<1>4. QED BY <1>1, <1>2, <1>3 DEF m

LEMMA DealtLine ==
  ASSUME TypeInv, NEW n \in Node, NEW s \in Node, NEW g \in Pieces, listener[n].got = <<g>>
  PROVE  LET l == Line(n, s) IN
         /\ l \in Seq(Pieces) /\ l # <<>> /\ l[1] = g /\ Tail(l) = in[n] \o out[s]
         /\ in[n] # <<>> => Len(l) >= 2 /\ Tail(Tail(l)) = Tail(in[n]) \o out[s]
<1>1. in[n] \in Seq(Pieces) /\ out[s] \in Seq(Pieces) BY LineType
<1>2. PICK c, q, u, l : c = listener[n].got /\ q = in[n] /\ u = out[s] /\ l = Line(n, s)
  OBVIOUS
<1>3. c = <<g>> /\ l = (c \o q) \o u /\ q \in Seq(Pieces) /\ u \in Seq(Pieces)
  BY <1>1, <1>2 DEF Line
<1>4. /\ l \in Seq(Pieces) /\ l # <<>> /\ l[1] = g /\ Tail(l) = q \o u
      /\ q # <<>> => Len(l) >= 2 /\ Tail(Tail(l)) = Tail(q) \o u
  BY <1>3, Dealt
<1>5. QED BY <1>2, <1>4

LEMMA LineAppended ==
  ASSUME NEW g \in Seq(Pieces), NEW q \in Seq(Pieces), NEW u \in Seq(Pieces),
         NEW w \in Seq(Pieces)
  PROVE  (g \o q) \o (u \o w) = ((g \o q) \o u) \o w
<1>1. g \o q \in Seq(Pieces) BY ConcatProperties
<1>2. \A k \in Seq(Pieces) : (k \o u) \o w = k \o (u \o w) BY ConcatAssociative
<1>3. QED BY <1>1, <1>2

\* What follows the pieces of a call or of the buffer is on the line, too.
LEMMA PartOfLine ==
  ASSUME NEW g \in Seq(Pieces), NEW q \in Seq(Pieces), NEW u \in Seq(Pieces)
  PROVE  LET l == (g \o q) \o u IN
         /\ \A i \in 1..Len(g \o q) : i \in 1..Len(l) /\ l[i] = (g \o q)[i]
         /\ \A i \in 1..Len(q \o u) : Len(g) + i \in 1..Len(l) /\ l[Len(g) + i] = (q \o u)[i]
         /\ \A i \in 1..Len(u) : Len(g \o q) + i \in 1..Len(l) /\ l[Len(g \o q) + i] = u[i]
<1>1. /\ g \o q \in Seq(Pieces) /\ q \o u \in Seq(Pieces)
      /\ Len(g \o q) = Len(g) + Len(q) /\ Len(q \o u) = Len(q) + Len(u)
      /\ Len(g) \in Nat /\ Len(q) \in Nat /\ Len(u) \in Nat
  BY ConcatProperties, LenProperties
<1>2. /\ Len((g \o q) \o u) = Len(g \o q) + Len(u)
      /\ \A i \in 1..Len(g \o q) + Len(u) :
             ((g \o q) \o u)[i] = IF i <= Len(g \o q) THEN (g \o q)[i] ELSE u[i - Len(g \o q)]
  BY <1>1, ConcatProperties
<1>3. /\ Len(g \o (q \o u)) = Len(g) + Len(q \o u)
      /\ \A i \in 1..Len(g) + Len(q \o u) :
             (g \o (q \o u))[i] = IF i <= Len(g) THEN g[i] ELSE (q \o u)[i - Len(g)]
  BY <1>1, ConcatProperties
<1>4. g \o (q \o u) = (g \o q) \o u BY ConcatAssociative
<1>5. ASSUME NEW i \in 1..Len(q \o u)
      PROVE  Len(g) + i \in 1..Len((g \o q) \o u) /\ ((g \o q) \o u)[Len(g) + i] = (q \o u)[i]
  <2>1. Len(g) + i \in 1..Len(g) + Len(q \o u) /\ ~(Len(g) + i <= Len(g))
        /\ (Len(g) + i) - Len(g) = i
    BY <1>1
  <2>2. QED BY <1>3, <1>4, <2>1
<1>6. ASSUME NEW i \in 1..Len(u)
      PROVE  /\ Len(g \o q) + i \in 1..Len((g \o q) \o u)
             /\ ((g \o q) \o u)[Len(g \o q) + i] = u[i]
  <2>1. /\ Len(g \o q) + i \in 1..Len(g \o q) + Len(u) /\ ~(Len(g \o q) + i <= Len(g \o q))
        /\ (Len(g \o q) + i) - Len(g \o q) = i
    BY <1>1
  <2>2. QED BY <1>2, <2>1
<1>7. ASSUME NEW i \in 1..Len(g \o q)
      PROVE  i \in 1..Len((g \o q) \o u) /\ ((g \o q) \o u)[i] = (g \o q)[i]
  BY <1>1, <1>2
<1>8. QED BY <1>5, <1>6, <1>7

\* Clocks and turns of the two nodes.
LEMMA TurnsChange ==
  ASSUME NEW n, NEW r \in Nat
  PROVE  /\ HasTurn(n, r) \in BOOLEAN /\ HasTurn(n, r + 1) \in BOOLEAN
         /\ HasTurn(n, r + 1) = ~HasTurn(n, r)
         /\ HasTurn(n, r + 2) = HasTurn(n, r)
<1>1. /\ r % 2 \in {0, 1}
      /\ (r + 1) % 2 = 1 - (r % 2) /\ (r + 2) % 2 = r % 2
  OBVIOUS
<1>2. CASE r % 2 = 0 BY <1>1, <1>2 DEF HasTurn
<1>3. CASE r % 2 = 1 BY <1>1, <1>3 DEF HasTurn
<1>4. QED BY <1>1, <1>2, <1>3

LEMMA ListenChoice ==
  ASSUME Alternating, NEW n \in Node, NEW s \in Node, n # s, NEW r \in Nat
  PROVE  status_chooser_transfer(ChooserOf(n, "listen"), "listen", r)
             = IF HasTurn(s, r) THEN "receiving" ELSE "sending"
<1>1. Peer(n) = s BY PeerOfNode
<1>2. Chooser[s] \in {"only_work_at_odd_round", "only_work_at_even_round"}
  BY DEF Alternating
<1>3. ChooserOf(n, "listen") = Chooser[s] BY <1>1 DEF ChooserOf
<1>4. r % 2 \in {0, 1} OBVIOUS
<1>5. CASE Chooser[s] = "only_work_at_odd_round"
  BY <1>3, <1>4, <1>5 DEF HasTurn, status_chooser_transfer, only_work_at_odd_round
<1>6. CASE Chooser[s] = "only_work_at_even_round"
  BY <1>3, <1>4, <1>6 DEF HasTurn, status_chooser_transfer, only_work_at_even_round
<1>7. QED BY <1>2, <1>5, <1>6

(* Where the two clocks are in their rounds.                               *)
Times(n, s) ==
    /\ now \in Nat /\ ahead[n] \in Nat /\ ahead[s] \in Nat
    /\ RoundLen \in Nat /\ Skew \in Nat /\ Skew < RoundLen
    /\ Clock(n) = now + ahead[n] /\ Clock(s) = now + ahead[s]
    /\ Clock(n) <= Clock(s) + Skew /\ Clock(s) <= Clock(n) + Skew
    /\ CurrentRound(n) \in Nat \ {0} /\ CurrentRound(s) \in Nat \ {0}
    /\ CurrentRound(n) \in Rounds /\ CurrentRound(s) \in Rounds
    /\ CurrentRound(n) + 1 \in Rounds /\ CurrentRound(n) + 2 \in Rounds
    /\ Begins(CurrentRound(n)) \in Nat /\ Begins(CurrentRound(s)) \in Nat
    /\ Begins(CurrentRound(n)) <= Clock(n) /\ Begins(CurrentRound(s)) <= Clock(s)
    /\ Begins(CurrentRound(n) + 1) = Begins(CurrentRound(n)) + RoundLen
    /\ Begins(CurrentRound(n) + 2) = Begins(CurrentRound(n)) + RoundLen + RoundLen
    /\ Begins(CurrentRound(s) + 1) = Begins(CurrentRound(s)) + RoundLen
    /\ Clock(n) < Begins(CurrentRound(n)) + RoundLen
    /\ Clock(s) < Begins(CurrentRound(s)) + RoundLen
    /\ \/ /\ CurrentRound(n) = CurrentRound(s)
          /\ Begins(CurrentRound(n)) = Begins(CurrentRound(s))
          /\ HasTurn(s, CurrentRound(s)) = HasTurn(s, CurrentRound(n))
       \/ /\ CurrentRound(n) = CurrentRound(s) + 1
          /\ Begins(CurrentRound(n)) = Begins(CurrentRound(s)) + RoundLen
          /\ HasTurn(s, CurrentRound(s)) = ~HasTurn(s, CurrentRound(n))
       \/ /\ CurrentRound(s) = CurrentRound(n) + 1
          /\ Begins(CurrentRound(s)) = Begins(CurrentRound(n)) + RoundLen
          /\ HasTurn(s, CurrentRound(s)) = ~HasTurn(s, CurrentRound(n))

\* Clocks that differ by less than a round are in the same or in adjacent rounds.
LEMMA RoundsClose ==
  ASSUME NEW x \in Nat, NEW y \in Nat, x <= y + Skew, y <= x + Skew
  PROVE  \/ x \div RoundLen = y \div RoundLen
         \/ x \div RoundLen = y \div RoundLen + 1
         \/ y \div RoundLen = x \div RoundLen + 1
<1> DEFINE p == x \div RoundLen
           q == y \div RoundLen
<1>1. /\ p \in Nat /\ Begins(p) <= x /\ x < Begins(p + 1)
      /\ q \in Nat /\ Begins(q) <= y /\ y < Begins(q + 1)
  BY Division
<1>2. /\ Begins(p) \in Nat /\ Begins(p + 1) = Begins(p) + RoundLen
      /\ Begins(q) \in Nat /\ Begins(q + 1) = Begins(q) + RoundLen
  BY <1>1, BeginsNext
<1>3. CASE p + 1 < q
  <2>1. p + 1 \in Nat /\ Begins((p + 1) + 1) <= Begins(q)
    BY <1>1, <1>3, BeginsLater
  <2>2. Begins((p + 1) + 1) = Begins(p + 1) + RoundLen BY <2>1, BeginsNext
  <2>3. QED BY <1>1, <1>2, <2>1, <2>2, Constants
<1>4. CASE q + 1 < p
  <2>1. q + 1 \in Nat /\ Begins((q + 1) + 1) <= Begins(p)
    BY <1>1, <1>4, BeginsLater
  <2>2. Begins((q + 1) + 1) = Begins(q + 1) + RoundLen BY <2>1, BeginsNext
  <2>3. QED BY <1>1, <1>2, <2>1, <2>2, Constants
<1>5. QED BY <1>1, <1>3, <1>4

LEMMA TimesHold ==
  ASSUME TypeInv, NEW n \in Node, NEW s \in Node
  PROVE  Times(n, s)
<1>1. /\ now \in Nat /\ ahead[n] \in Nat /\ ahead[s] \in Nat
      /\ ahead[n] <= Skew /\ ahead[s] <= Skew
      /\ RoundLen \in Nat /\ Skew \in Nat /\ Skew < RoundLen
      /\ now \in RoundLen..Horizon /\ ahead[n] \in 0..Skew /\ ahead[s] \in 0..Skew
  BY Constants DEF TypeInv
<1> DEFINE R == CurrentRound(n)
           S == CurrentRound(s)
<1>2. /\ R \in 1..MaxRound /\ Begins(R) <= Clock(n) /\ Clock(n) < Begins(R + 1)
      /\ S \in 1..MaxRound /\ Begins(S) <= Clock(s) /\ Clock(s) < Begins(S + 1)
  BY <1>1, RoundsOfClock
<1>3. MaxRound \in Nat BY MaxRoundType
<1>4. /\ R \in Nat \ {0} /\ R \in Rounds /\ R + 1 \in Rounds /\ R + 2 \in Rounds
      /\ S \in Nat \ {0} /\ S \in Rounds
  BY <1>2, <1>3 DEF Rounds
<1>5. /\ Begins(R) \in Nat /\ Begins(R + 1) = Begins(R) + RoundLen
      /\ Begins((R + 1) + 1) = Begins(R + 1) + RoundLen /\ (R + 1) + 1 = R + 2
      /\ Begins(S) \in Nat /\ Begins(S + 1) = Begins(S) + RoundLen
  BY <1>4, BeginsNext
<1>6. \/ R = S \/ R = S + 1 \/ S = R + 1
  <2>1. /\ Clock(n) \in Nat /\ Clock(s) \in Nat
        /\ Clock(n) <= Clock(s) + Skew /\ Clock(s) <= Clock(n) + Skew
    BY <1>1 DEF Clock
  <2>2. R = Clock(n) \div RoundLen /\ S = Clock(s) \div RoundLen
    BY DEF CurrentRound, Clock
  <2>3. QED BY <2>1, <2>2, RoundsClose
<1>7. /\ R = S + 1 => HasTurn(s, S) = ~HasTurn(s, R)
      /\ S = R + 1 => HasTurn(s, S) = ~HasTurn(s, R)
  BY <1>4, TurnsChange
<1> HIDE DEF R, S
<1>8. \/ R = S /\ Begins(R) = Begins(S) /\ HasTurn(s, S) = HasTurn(s, R)
      \/ R = S + 1 /\ Begins(R) = Begins(S) + RoundLen /\ HasTurn(s, S) = ~HasTurn(s, R)
      \/ S = R + 1 /\ Begins(S) = Begins(R) + RoundLen /\ HasTurn(s, S) = ~HasTurn(s, R)
  BY <1>5, <1>6, <1>7
<1>9. /\ Clock(n) = now + ahead[n] /\ Clock(s) = now + ahead[s]
      /\ Clock(n) <= Clock(s) + Skew /\ Clock(s) <= Clock(n) + Skew
  BY <1>1 DEF Clock
<1>10. QED BY <1>1, <1>2, <1>4, <1>5, <1>8, <1>9 DEF Times, R, S

LEMMA TimesAfter ==
  ASSUME NEW n \in Node, NEW s \in Node
  PROVE  TypeInv' => Times(n, s)'
<1>1. TypeInv => Times(n, s) BY TimesHold
<1>2. QED BY <1>1, PTL

LEMMA RoundTicks ==
  ASSUME NEW x \in Nat
  PROVE  \/ (x + 1) \div RoundLen = x \div RoundLen
         \/ /\ (x + 1) \div RoundLen = x \div RoundLen + 1
            /\ x + 1 = Begins(x \div RoundLen + 1)
<1> DEFINE q == x \div RoundLen
<1>1. q \in Nat /\ Begins(q) <= x /\ x < Begins(q + 1) BY Division
<1>2. /\ Begins(q) \in Nat /\ Begins(q + 1) = Begins(q) + RoundLen
      /\ q + 1 \in Nat /\ Begins((q + 1) + 1) = Begins(q + 1) + RoundLen
  BY <1>1, BeginsNext
<1>3. CASE x + 1 < Begins(q + 1)
  <2>1. Begins(q) <= x + 1 /\ x + 1 \in Nat BY <1>1, <1>2
  <2>2. QED BY <1>1, <1>3, <2>1, DivisionIs
<1>4. CASE x + 1 = Begins(q + 1)
  <2>1. x + 1 < Begins((q + 1) + 1) /\ Begins(q + 1) <= x + 1 /\ x + 1 \in Nat
    BY <1>2, <1>4, Constants
  <2>2. (x + 1) \div RoundLen = q + 1 BY <1>2, <2>1, DivisionIs
  <2>3. QED BY <1>4, <2>2
<1>5. QED BY <1>1, <1>2, <1>3, <1>4, Constants

LEMMA TimesOfTick ==
  ASSUME TypeInv, TypeInv', Tick, NEW n \in Node
  PROVE  /\ Clock(n)' = Clock(n) + 1 /\ Clock(n) \in Nat
         /\ \/ CurrentRound(n)' = CurrentRound(n)
            \/ /\ CurrentRound(n)' = CurrentRound(n) + 1
               /\ Clock(n)' = Begins(CurrentRound(n) + 1)
<1>1. now \in Nat /\ ahead[n] \in Nat /\ now' = now + 1 /\ ahead' = ahead
  BY Constants DEF TypeInv, Tick
<1>2. /\ Clock(n) \in Nat /\ Clock(n)' = Clock(n) + 1
      /\ CurrentRound(n) = Clock(n) \div RoundLen
      /\ CurrentRound(n)' = (Clock(n) + 1) \div RoundLen
  <2>1. (now + 1) + ahead[n] = (now + ahead[n]) + 1 BY <1>1
  <2>2. QED BY <1>1, <2>1 DEF Clock, CurrentRound
<1>3. QED BY <1>2, RoundTicks

\* Whatever s writes or has on its way to the wire belongs to the round that
\* both its clock and its test thread are in, and n is not beyond it.
LEMMA WrittenNow ==
  ASSUME TypeInv, NEW n \in Node, NEW s \in Node,
         HasTurn(s, round_array[s]), Begins(round_array[s]) <= Clock(s),
         Clock(s) + Skew < Begins(round_array[s] + 1)
  PROVE  /\ round_array[s] = CurrentRound(s) /\ HasTurn(s, CurrentRound(s))
         /\ CurrentRound(n) = CurrentRound(s) \/ CurrentRound(n) + 1 = CurrentRound(s)
<1>1. Times(n, s) BY TimesHold
<1>2. round_array[s] \in Nat BY Numbers
<1>3. Clock(s) < Begins(round_array[s] + 1) /\ Clock(s) \in Nat
  BY <1>1, <1>2, BeginsNext DEF Times
<1>4. Clock(s) \div RoundLen = round_array[s] BY <1>2, <1>3, DivisionIs
<1>5. CurrentRound(s) = round_array[s] BY <1>4 DEF CurrentRound, Clock
<1>6. Clock(s) + Skew < Begins(CurrentRound(s)) + RoundLen
  BY <1>1, <1>5 DEF Times
<1>7. QED BY <1>1, <1>5, <1>6 DEF Times

LEMMA OutNow ==
  ASSUME TypeInv, NEW n \in Node, NEW s \in Node, NodeInv(s), out[s] # <<>>
  PROVE  /\ HasTurn(s, CurrentRound(s))
         /\ CurrentRound(n) = CurrentRound(s) \/ CurrentRound(n) + 1 = CurrentRound(s)
BY WrittenNow DEF NodeInv, OutInTurn

\* The parts of the invariant after a step that takes no time.
LEMMA Meanwhile ==
  ASSUME now' = now, ahead' = ahead, NEW n \in Node
  PROVE  CurrentRound(n)' = CurrentRound(n) /\ Clock(n)' = Clock(n)
BY DEF CurrentRound, Clock

LEMMA LineUnmoved ==
  ASSUME NEW n \in Node, NEW s \in Node, LineInv(n, s), now' = now, ahead' = ahead,
         listener'[n] = listener[n], in'[n] = in[n], out'[s] = out[s],
         since'[n] = since[n], hurt'[n] = hurt[n],
         counted'[n] = counted[n], sent'[s] = sent[s]
  PROVE  LineInv(n, s)'
<1>1. CurrentRound(n)' = CurrentRound(n) /\ CurrentRound(s)' = CurrentRound(s)
  BY Meanwhile
<1>2. Line(n, s)' = Line(n, s) BY DEF Line
<1>3. Excused(n)' = Excused(n) BY DEF Excused
<1>4. NextTurn(n, s)' = NextTurn(n, s) BY <1>1 DEF NextTurn
<1>5. ListenerInv(n)' /\ WaitsForTurn(n, s)' /\ CallsEarly(n, s)' /\ NothingRead(n, s)'
  BY <1>1, <1>3 DEF LineInv, ListenerInv, WaitsForTurn, CallsEarly, NothingRead
<1>6. CallInTime(n, s)' BY <1>1, <1>3, <1>4 DEF LineInv, CallInTime
<1>7. FramesWhole(n, s)' /\ OfThisRound(n, s)' /\ NoneLost(n, s)'
  BY <1>1, <1>2, <1>3 DEF LineInv, FramesWhole, OfThisRound, NoneLost
<1>8. QED BY <1>5, <1>6, <1>7 DEF LineInv

\* A call that is going on in the turn of s at the earliest ends after it, and
\* one that is still going on when n is not in a turn of s ends before the next.
LEMMA TickLine ==
  ASSUME Alternating, TypeInv, TypeInv', NEW n \in Node, NEW s \in Node, n # s,
         LineInv(n, s), Tick
  PROVE  LineInv(n, s)'
<1> DEFINE R == CurrentRound(n)
           S == CurrentRound(s)
           d == listener[n].deadline
<1>1. Times(n, s) /\ Times(n, s)' BY TimesHold, TimesAfter
<1>2. /\ now' = now + 1 /\ ahead' = ahead /\ listener' = listener /\ in' = in /\ out' = out
      /\ hurt' = hurt /\ since' = since /\ counted' = counted /\ sent' = sent
      /\ out[s] = <<>>
      /\ listener[n].reading => in[n] = <<>> /\ ~TimedOut(n)
  BY DEF Tick, Busy
<1>3. /\ d \in Nat /\ since[n] \in Nat
      /\ listener[n].reading => now < d
  <2>1. listener[n] \in Calls /\ since[n] \in Rounds BY DEF TypeInv
  <2>2. d \in Nat /\ since[n] \in Nat
    BY <2>1, MaxRoundType, Constants DEF Calls, Rounds
  <2>3. listener[n].reading => ~(now >= d) BY <1>2 DEF TimedOut
  <2>4. now \in Nat BY <1>1 DEF Times
  <2>5. QED BY <2>2, <2>3, <2>4
<1>4. since[n] = 0 /\ ~listener[n].reading => ~HasTurn(s, R)
  <2>1. SUFFICES ASSUME Polling(n), HasTurn(s, R) PROVE FALSE BY DEF Polling
  <2>2. status_chooser_transfer(ChooserOf(n, "listen"), "listen", R) = "receiving"
    BY <1>1, <2>1, ListenChoice DEF Times
  <2>3. Busy(n) BY <2>1, <2>2 DEF Busy
  <2>4. QED BY <2>3 DEF Tick
<1>5. /\ Clock(n)' = Clock(n) + 1 /\ Clock(s)' = Clock(s) + 1
      /\ CurrentRound(n)' = R \/ (CurrentRound(n)' = R + 1 /\ Clock(n)' = Begins(R + 1))
      /\ CurrentRound(s)' = S \/ (CurrentRound(s)' = S + 1 /\ Clock(s)' = Begins(S + 1))
  <2>1. /\ Clock(n)' = Clock(n) + 1
        /\ CurrentRound(n)' = R \/ (CurrentRound(n)' = R + 1 /\ Clock(n)' = Begins(R + 1))
    BY TimesOfTick
  <2>2. /\ Clock(s)' = Clock(s) + 1
        /\ CurrentRound(s)' = S \/ (CurrentRound(s)' = S + 1 /\ Clock(s)' = Begins(S + 1))
    BY TimesOfTick
  <2>3. QED BY <2>1, <2>2
<1>6. /\ Line(n, s)' = Line(n, s) /\ Excused(n)' = Excused(n)
      /\ Line(n, s) = (listener[n].got \o in[n]) \o <<>>
  BY <1>2 DEF Line, Excused
<1>7. /\ ListenerInv(n) /\ WaitsForTurn(n, s) /\ CallInTime(n, s) /\ CallsEarly(n, s)
      /\ NothingRead(n, s) /\ FramesWhole(n, s) /\ OfThisRound(n, s) /\ NoneLost(n, s)
  BY DEF LineInv
<1>8. /\ HasTurn(s, R) \in BOOLEAN /\ HasTurn(s, S) \in BOOLEAN
      /\ HasTurn(s, R + 1) = ~HasTurn(s, R) /\ HasTurn(s, S + 1) = ~HasTurn(s, S)
  BY <1>1, TurnsChange DEF Times
\* No call lasts into a turn of s by the clock of n.
<1>9. CurrentRound(n)' = R + 1 /\ ~HasTurn(s, R) => ~listener[n].reading
  <2>1. SUFFICES ASSUME Clock(n)' = Begins(R + 1), ~HasTurn(s, R), listener[n].reading
                 PROVE  FALSE
    BY <1>1, <1>5 DEF Times
  <2>2. d + ahead[n] < Begins(R + 1) BY <1>7, <2>1 DEF CallInTime, NextTurn
  <2>3. QED BY <1>1, <1>3, <1>5, <2>1, <2>2 DEF Times
\* What waits in the buffer is not kept waiting to the end of the turn.
<1>10. since[n] = 0 /\ in[n] # <<>> =>
           /\ HasTurn(s, S) /\ R + 1 = S /\ CurrentRound(s)' = S
           /\ CurrentRound(n)' = S \/ CurrentRound(n)' + 1 = S
  <2>1. SUFFICES ASSUME since[n] = 0, in[n] # <<>>
                 PROVE  /\ HasTurn(s, S) /\ R + 1 = S /\ CurrentRound(s)' = S
                        /\ CurrentRound(n)' = S \/ CurrentRound(n)' + 1 = S
    OBVIOUS
  <2>2. HasTurn(s, S) /\ (R = S \/ R + 1 = S) BY <1>7, <2>1 DEF WaitsForTurn
  <2>3. ~HasTurn(s, R) BY <1>2, <1>4, <2>1
  <2>4. R + 1 = S BY <2>2, <2>3
  <2>5. Begins(S) = Begins(R) + RoundLen BY <1>1, <2>4 DEF Times
  <2>6. Clock(s) + 1 < Begins(S + 1) BY <1>1, <2>5 DEF Times
  <2>7. CurrentRound(s)' = S BY <1>1, <1>5, <2>6 DEF Times
  <2>8. QED BY <1>1, <1>5, <2>2, <2>4, <2>7 DEF Times
<1> HIDE DEF R, S, d
<1>11. /\ R \in Nat /\ S \in Nat /\ CurrentRound(n)' \in Nat /\ CurrentRound(s)' \in Nat
       /\ R <= CurrentRound(n)' /\ S <= CurrentRound(s)' /\ S \in Rounds
  <2>1. R \in Nat /\ S \in Nat /\ S \in Rounds BY <1>1 DEF Times, R, S
  <2>2. QED BY <1>5, <2>1
<1>12. now \in Nat /\ ahead[s] \in Nat /\ Clock(s) = now + ahead[s] BY <1>1 DEF Times
<1>13. ListenerInv(n)'
  <2>1. since[n] <= CurrentRound(n)' BY <1>3, <1>7, <1>11 DEF ListenerInv, R
  <2>2. QED BY <1>2, <1>7, <2>1 DEF ListenerInv
<1>14. WaitsForTurn(n, s)' BY <1>2, <1>10 DEF WaitsForTurn
<1>15. CallInTime(n, s)'
  <2>1. SUFFICES ASSUME listener[n].reading
                 PROVE  /\ now + 1 <= d
                        /\ HasTurn(s, CurrentRound(n)') =>
                               Begins(CurrentRound(n)' + 1) <= d + ahead[n]
                        /\ d + ahead[n] < Begins(NextTurn(n, s)')
                        /\ NextTurn(n, s)' \notin Excused(n) =>
                               d + ahead[s] < Begins(NextTurn(n, s)')
    BY <1>2, <1>6 DEF CallInTime, d
  <2>2. /\ HasTurn(s, R) => Begins(R + 1) <= d + ahead[n]
        /\ d + ahead[n] < Begins(NextTurn(n, s))
        /\ NextTurn(n, s) \notin Excused(n) => d + ahead[s] < Begins(NextTurn(n, s))
    BY <1>7, <2>1 DEF CallInTime, R, d
  <2>3. CASE CurrentRound(n)' = R
    <3>1. NextTurn(n, s)' = NextTurn(n, s) BY <2>3 DEF NextTurn, R
    <3>2. QED BY <1>1, <1>3, <2>1, <2>2, <2>3, <3>1 DEF Times
  <2>4. CASE CurrentRound(n)' = R + 1
    <3>1. HasTurn(s, R) /\ ~HasTurn(s, R + 1) BY <1>8, <1>9, <2>1, <2>4
    <3>2. NextTurn(n, s)' = (R + 1) + 1 /\ NextTurn(n, s) = R + 2
      BY <2>4, <3>1 DEF NextTurn, R
    <3>3. NextTurn(n, s)' = NextTurn(n, s) BY <1>1, <3>2 DEF Times, R
    <3>4. QED BY <1>1, <1>3, <2>1, <2>2, <2>4, <3>1, <3>3 DEF Times
  <2>5. QED BY <1>5, <2>3, <2>4
<1>16. CallsEarly(n, s)'
  <2>1. SUFFICES ASSUME since[n] = 0, ~listener[n].reading, HasTurn(s, CurrentRound(n)')
                 PROVE  CurrentRound(s)' <= CurrentRound(n)'
    BY <1>2 DEF CallsEarly
  <2>2. CurrentRound(n)' # R BY <1>4, <2>1
  <2>3. Clock(n)' = Begins(CurrentRound(n)') BY <1>5, <2>2
  <2>4. QED BY <1>1, <2>3 DEF Times
<1>17. NothingRead(n, s)'
  <2>1. SUFFICES ASSUME HasTurn(s, CurrentRound(n)'),
                        CurrentRound(s)' + 1 = CurrentRound(n)'
                 PROVE  listener[n].got = <<>>
    BY <1>2 DEF NothingRead
  <2>2. CASE CurrentRound(n)' = R
    <3>1. S + 1 = R BY <1>1, <1>5, <2>1, <2>2 DEF Times, R, S
    <3>2. QED BY <1>7, <2>1, <2>2, <3>1 DEF NothingRead, R, S
  <2>3. CASE CurrentRound(n)' = R + 1
    <3>1. ~listener[n].reading BY <1>8, <1>9, <2>1, <2>3
    <3>2. QED BY <1>7, <3>1 DEF ListenerInv
  <2>4. QED BY <1>5, <2>2, <2>3
<1>18. FramesWhole(n, s)'
  <2>1. SUFFICES ASSUME HasTurn(s, CurrentRound(s)'), CurrentRound(s)' \notin Excused(n)
                 PROVE  Framed(Line(n, s))
    BY <1>6 DEF FramesWhole
  <2>2. CASE CurrentRound(s)' = S
    BY <1>7, <2>1, <2>2 DEF FramesWhole, S
  <2>3. CASE CurrentRound(s)' = S + 1
    <3>1. ~HasTurn(s, S) BY <1>8, <2>1, <2>3
    <3>2. since[n] = 0
      <4>1. since[n] <= R BY <1>7 DEF ListenerInv, R
      <4>2. R <= S + 1 BY <1>1 DEF Times, R, S
      <4>3. S + 1 \in Rounds BY <1>1, <2>3 DEF Times
      <4>4. QED BY <1>1, <1>3, <2>1, <2>3, <4>1, <4>2, <4>3 DEF Excused, Times, R, S
    <3>3. in[n] = <<>> BY <1>10, <3>1, <3>2
    <3>4. listener[n].got = <<>>
      <4>1. SUFFICES ASSUME listener[n].reading PROVE listener[n].got = <<>>
        BY <1>7 DEF ListenerInv
      <4>2. CASE R = S
        <5>1. NextTurn(n, s) = S + 1 BY <3>1, <4>2 DEF NextTurn, R
        <5>2. d + ahead[s] < Begins(S + 1)
          BY <1>7, <2>1, <2>3, <4>1, <5>1 DEF CallInTime, d
        <5>3. Clock(s) + 1 = Begins(S + 1) BY <1>1, <1>5, <2>3 DEF Times, S
        <5>4. QED BY <1>3, <1>12, <4>1, <5>2, <5>3
      <4>3. CASE R = S + 1
        <5>1. HasTurn(s, R) BY <2>1, <2>3, <4>3
        <5>2. QED BY <1>7, <4>3, <5>1 DEF NothingRead, R, S
      <4>4. CASE S = R + 1
        <5>1. Clock(s) + 1 = Begins(S + 1) BY <1>1, <1>5, <2>3 DEF Times, S
        <5>2. Begins(S) = Begins(R) + RoundLen BY <1>1, <4>4 DEF Times, R, S
        <5>3. /\ Begins(S + 1) = Begins(S) + RoundLen /\ Begins(R) \in Nat /\ Clock(n) \in Nat
              /\ Clock(n) < Begins(R) + RoundLen /\ Clock(s) <= Clock(n) + Skew
              /\ Skew \in Nat /\ RoundLen \in Nat /\ Skew < RoundLen /\ Clock(s) \in Nat
          BY <1>1 DEF Times, R, S
        <5>4. QED BY <5>1, <5>2, <5>3
      <4>5. QED BY <1>1, <4>2, <4>3, <4>4 DEF Times, R, S
    <3>5. Line(n, s) = <<>> BY <1>6, <3>3, <3>4
    <3>6. QED BY <3>5, FramedEmpty
  <2>4. QED BY <1>5, <2>2, <2>3
<1>19. OfThisRound(n, s)'
  <2>1. SUFFICES ASSUME NEW r \in Rounds \ {0}, NEW i \in 1..Len(Line(n, s)),
                        Line(n, s)[i] = Text(r)
                 PROVE  /\ r <= CurrentRound(s)'
                        /\ r \notin Excused(n) => /\ r = CurrentRound(s)' /\ HasTurn(s, r)
                                                  /\ CurrentRound(n)' <= r
    BY <1>6 DEF OfThisRound
  <2>2. /\ r <= S
        /\ r \notin Excused(n) => r = S /\ HasTurn(s, r) /\ R <= r
    BY <1>7, <2>1 DEF OfThisRound, R, S
  <2>3. r \in Nat /\ r <= CurrentRound(s)'
    BY <1>11, <2>2, MaxRoundType DEF Rounds
  <2>4. ASSUME r \notin Excused(n)
        PROVE  r = CurrentRound(s)' /\ CurrentRound(n)' <= r
    <3>1. r = S /\ HasTurn(s, S) /\ R <= S BY <2>2, <2>4
    <3>2. since[n] = 0
      <4>1. since[n] <= R BY <1>7 DEF ListenerInv, R
      <4>2. since[n] <= S BY <1>3, <1>11, <3>1, <4>1
      <4>3. QED BY <1>11, <2>4, <3>1, <4>2 DEF Excused
    <3>3. Framed(Line(n, s)) BY <1>7, <2>4, <3>1 DEF FramesWhole, S
    <3>4. in[n] # <<>>
      <4>1. SUFFICES ASSUME in[n] = <<>> PROVE FALSE OBVIOUS
      <4>2. listener[n].got \in Heads /\ listener[n].got \in Seq(Pieces) BY LineType
      <4>3. Line(n, s) = listener[n].got BY <1>6, <4>1, <4>2
      <4>4. Line(n, s) = <<>> BY <3>3, <4>2, <4>3, FramedShort
      <4>5. Len(<<>>) = 0 OBVIOUS
      <4>6. QED BY <2>1, <4>4, <4>5
    <3>5. QED BY <1>10, <1>11, <3>1, <3>2, <3>4
  <2>5. QED BY <2>2, <2>3, <2>4
<1>20. NoneLost(n, s)'
  <2>1. \A r \in Rounds \ {0} :
            r \notin Excused(n) => counted[n][r] + Copies(Line(n, s), r) = sent[s][r]
    BY <1>7 DEF NoneLost
  <2>2. QED BY <1>2, <1>6, <2>1 DEF NoneLost
<1>21. QED BY <1>13, <1>14, <1>15, <1>16, <1>17, <1>18, <1>19, <1>20 DEF LineInv

LEMMA LineTypeAfter ==
  ASSUME NEW n \in Node, NEW s \in Node
  PROVE  TypeInv' => (Line(n, s) \in Seq(Pieces))'
<1>1. TypeInv => Line(n, s) \in Seq(Pieces) BY LineType
<1>2. QED BY <1>1, PTL

LEMMA CallsUnmoved ==
  ASSUME NEW n \in Node, NEW s \in Node, LineInv(n, s), now' = now, ahead' = ahead,
         listener'[n] = listener[n], since'[n] = since[n],
         in'[n] = in[n], Excused(n) \subseteq Excused(n)'
  PROVE  /\ ListenerInv(n)' /\ WaitsForTurn(n, s)' /\ CallInTime(n, s)'
         /\ CallsEarly(n, s)' /\ NothingRead(n, s)'
<1>1. CurrentRound(n)' = CurrentRound(n) /\ CurrentRound(s)' = CurrentRound(s)
  BY Meanwhile
<1>2. NextTurn(n, s)' = NextTurn(n, s) BY <1>1 DEF NextTurn
<1>3. /\ ListenerInv(n) /\ WaitsForTurn(n, s) /\ CallInTime(n, s) /\ CallsEarly(n, s)
      /\ NothingRead(n, s)
  BY DEF LineInv
<1>4. ListenerInv(n)' /\ WaitsForTurn(n, s)' /\ NothingRead(n, s)'
  BY <1>1, <1>3 DEF ListenerInv, WaitsForTurn, NothingRead
<1>5. CallsEarly(n, s)' BY <1>1, <1>3 DEF CallsEarly
<1>6. CallInTime(n, s)' BY <1>1, <1>2, <1>3 DEF CallInTime
<1>7. QED BY <1>4, <1>5, <1>6

\* Pieces may be taken off the line if nothing is claimed of their round, or if
\* there are none of that round.
LEMMA LineLess ==
  ASSUME TypeInv, TypeInv', NEW n \in Node, NEW s \in Node, LineInv(n, s),
         now' = now, ahead' = ahead, counted'[n] = counted[n], sent'[s] = sent[s],
         \A i \in 1..Len(Line(n, s)') :
             \E j \in 1..Len(Line(n, s)) : Line(n, s)'[i] = Line(n, s)[j],
         \A r \in Rounds \ {0} : r \notin Excused(n)' =>
             \/ r \notin Excused(n) /\ (r # CurrentRound(s) \/ r < CurrentRound(n))
             \/ r > CurrentRound(s) /\ sent[s][r] = 0 /\ counted[n][r] = 0
  PROVE  OfThisRound(n, s)' /\ NoneLost(n, s)'
<1>1. CurrentRound(n)' = CurrentRound(n) /\ CurrentRound(s)' = CurrentRound(s)
  BY Meanwhile
<1>2. /\ CurrentRound(n) \in Nat /\ CurrentRound(s) \in Nat /\ \A r \in Rounds : r \in Nat
      /\ Line(n, s) \in Seq(Pieces) /\ Line(n, s)' \in Seq(Pieces)
  BY TimesHold, LineType, LineTypeAfter, MaxRoundType DEF Times, Rounds
<1>3. OfThisRound(n, s) /\ NoneLost(n, s) BY DEF LineInv
<1>4. ASSUME NEW r \in Rounds \ {0}, r \notin Excused(n)',
             NEW j \in 1..Len(Line(n, s)), Line(n, s)[j] = Text(r)
      PROVE  FALSE
  <2>1. /\ r <= CurrentRound(s)
        /\ r \notin Excused(n) => r = CurrentRound(s) /\ CurrentRound(n) <= r
    BY <1>3, <1>4 DEF OfThisRound
  <2>2. QED BY <1>2, <1>4, <2>1
<1>5. ASSUME NEW r \in Rounds \ {0}, NEW i \in 1..Len(Line(n, s)'), Line(n, s)'[i] = Text(r)
      PROVE  r <= CurrentRound(s) /\ r \in Excused(n)'
  <2>1. PICK j \in 1..Len(Line(n, s)) : Line(n, s)'[i] = Line(n, s)[j] OBVIOUS
  <2>2. Line(n, s)[j] = Text(r) BY <1>5, <2>1
  <2>3. r <= CurrentRound(s) BY <1>3, <2>2 DEF OfThisRound
  <2>4. QED BY <1>4, <2>2, <2>3
<1>6. OfThisRound(n, s)' BY <1>1, <1>5 DEF OfThisRound
<1>7. ASSUME NEW r \in Rounds \ {0}, r \notin Excused(n)'
      PROVE  counted[n][r] + Copies(Line(n, s), r)' = sent[s][r]
  <2>1. Copies(Line(n, s)', r) = 0 BY <1>2, <1>5, <1>7, CopiesNone
  <2>2. Copies(Line(n, s), r) = 0 BY <1>2, <1>4, <1>7, CopiesNone
  <2>3. CASE r \notin Excused(n)
    <3>1. counted[n][r] + Copies(Line(n, s), r) = sent[s][r]
      BY <1>3, <2>3 DEF NoneLost
    <3>2. QED BY <2>1, <2>2, <3>1
  <2>4. CASE sent[s][r] = 0 /\ counted[n][r] = 0
    BY <2>1, <2>4
  <2>5. QED BY <1>7, <2>3, <2>4
<1>8. NoneLost(n, s)' BY <1>7 DEF NoneLost
<1>9. QED BY <1>6, <1>8

\* A frame is put on the line.
LEMMA FrameAfter ==
  ASSUME NEW u \in Seq(Pieces), NEW r \in Rounds
  PROVE  /\ FrameOf(r) \in Seq(Pieces) /\ u \o FrameOf(r) # <<>>
         /\ Len(u \o FrameOf(r)) = Len(u) + 2 /\ Len(u) \in Nat
         /\ \A i \in 1..Len(u) : (u \o FrameOf(r))[i] = u[i]
         /\ (u \o FrameOf(r))[Len(u) + 1] = Text(r)
         /\ (u \o FrameOf(r))[Len(u) + 2] = Padding
<1>1. Text(r) \in Pieces /\ Padding \in Pieces BY DEF Pieces
<1>2. /\ FrameOf(r) \in Seq(Pieces) /\ Len(FrameOf(r)) = 2
      /\ FrameOf(r)[1] = Text(r) /\ FrameOf(r)[2] = Padding
  BY <1>1 DEF FrameOf
<1>3. /\ Len(u \o FrameOf(r)) = Len(u) + 2 /\ Len(u) \in Nat
      /\ \A i \in 1..Len(u) + 2 :
             (u \o FrameOf(r))[i] = IF i <= Len(u) THEN u[i] ELSE FrameOf(r)[i - Len(u)]
  <2>1. \A w \in Seq(Pieces) :
            /\ Len(u \o w) = Len(u) + Len(w)
            /\ \A i \in 1..Len(u) + Len(w) :
                   (u \o w)[i] = IF i <= Len(u) THEN u[i] ELSE w[i - Len(u)]
    BY ConcatProperties
  <2>2. Len(u) \in Nat BY LenProperties
  <2>3. QED BY <1>2, <2>1, <2>2
<1>4. u \o FrameOf(r) # <<>>
  <2>1. Len(<<>>) = 0 OBVIOUS
  <2>2. QED BY <1>3, <2>1
<1>5. /\ Len(u) + 1 \in 1..Len(u) + 2 /\ Len(u) + 2 \in 1..Len(u) + 2
      /\ ~(Len(u) + 1 <= Len(u)) /\ ~(Len(u) + 2 <= Len(u))
      /\ (Len(u) + 1) - Len(u) = 1 /\ (Len(u) + 2) - Len(u) = 2
  BY <1>3
<1>6. QED BY <1>2, <1>3, <1>4, <1>5

LEMMA FrameOnLine ==
  ASSUME TypeInv, CountTypes, NEW n \in Node, NEW s \in Node, LineInv(n, s),
         now' = now, ahead' = ahead, round_array' = round_array, listener' = listener,
         in' = in, since' = since, hurt' = hurt, counted' = counted,
         OutInTurn(s)', NEW q \in Rounds, q = 0 \/ q = round_array[s], send_message(s, q)
  PROVE  LineInv(n, s)'
<1>1. CASE RefusesToSend(s)
  <2>1. out' = out /\ sent' = sent BY <1>1 DEF send_message
  <2>2. QED BY <2>1, LineUnmoved
<1>2. CASE ~RefusesToSend(s)
  <2> DEFINE R == CurrentRound(n)
             S == CurrentRound(s)
  <2>1. /\ out' = [out EXCEPT ![s] = @ \o FrameOf(q)]
        /\ sent' = IF q = 0 THEN sent ELSE [sent EXCEPT ![s][q] = @ + 1]
    BY <1>2 DEF send_message, Write
  <2>2. FrameOf(q) \in Seq(Pieces) /\ \A r : Padding # Text(r)
    BY LineType, FrameAfter DEF Text, Padding
  <2>3. /\ listener[n].got \in Seq(Pieces) /\ in[n] \in Seq(Pieces) /\ out[s] \in Seq(Pieces)
        /\ Line(n, s) \in Seq(Pieces) /\ Len(Line(n, s)) \in Nat
    BY LineType
  <2>4. out'[s] = out[s] \o FrameOf(q) /\ out'[s] # <<>>
    <3>1. out'[s] = out[s] \o FrameOf(q) BY <2>1 DEF TypeInv
    <3>2. out[s] \o FrameOf(q) # <<>> BY <2>3, FrameAfter
    <3>3. QED BY <3>1, <3>2
  <2>5. /\ round_array[s] = S /\ HasTurn(s, S) /\ (R = S \/ R + 1 = S)
    <3>1. /\ HasTurn(s, round_array[s]) /\ Begins(round_array[s]) <= Clock(s)
          /\ Clock(s) + Skew < Begins(round_array[s] + 1)
      BY <2>4 DEF OutInTurn, Clock
    <3>2. QED BY <3>1, WrittenNow
  <2>6. /\ CurrentRound(n)' = R /\ CurrentRound(s)' = S BY Meanwhile
  <2>7. Excused(n)' = Excused(n) BY DEF Excused
  <2>8. Line(n, s)' = Line(n, s) \o FrameOf(q)
    <3>1. Line(n, s)' = (listener[n].got \o in[n]) \o (out[s] \o FrameOf(q))
      BY <2>4 DEF Line
    <3>2. \A w \in Seq(Pieces) : (listener[n].got \o in[n]) \o (out[s] \o w)
                                  = ((listener[n].got \o in[n]) \o out[s]) \o w
      BY <2>3, LineAppended, ZenonT(30)
    <3>3. QED BY <2>2, <3>1, <3>2 DEF Line
  <2>9. /\ FramesWhole(n, s) /\ OfThisRound(n, s) /\ NoneLost(n, s)
    BY DEF LineInv
  <2>10. R \in Nat /\ S \in Nat /\ \A r \in Rounds : r \in Nat
    BY TimesHold, MaxRoundType DEF Times, Rounds
  <2> HIDE DEF R, S
  <2>11. FramesWhole(n, s)'
    <3>1. SUFFICES ASSUME S \notin Excused(n) PROVE Framed(Line(n, s) \o FrameOf(q))
      BY <2>6, <2>7, <2>8 DEF FramesWhole
    <3>2. Framed(Line(n, s)) BY <2>5, <2>9, <3>1 DEF FramesWhole, S
    <3>3. QED BY <2>3, <3>2, FramedMore
  <2>12. OfThisRound(n, s)'
    <3>1. SUFFICES ASSUME NEW r \in Rounds \ {0},
                          NEW i \in 1..Len(Line(n, s) \o FrameOf(q)),
                          (Line(n, s) \o FrameOf(q))[i] = Text(r)
                   PROVE  /\ r <= S
                          /\ r \notin Excused(n) => r = S /\ HasTurn(s, r) /\ R <= r
      BY <2>6, <2>7, <2>8 DEF OfThisRound
    <3>2. /\ Len(Line(n, s) \o FrameOf(q)) = Len(Line(n, s)) + 2
          /\ \A j \in 1..Len(Line(n, s)) : (Line(n, s) \o FrameOf(q))[j] = Line(n, s)[j]
          /\ (Line(n, s) \o FrameOf(q))[Len(Line(n, s)) + 1] = Text(q)
          /\ (Line(n, s) \o FrameOf(q))[Len(Line(n, s)) + 2] = Padding
      BY <2>3, FrameAfter
    <3>3. CASE i <= Len(Line(n, s))
      <4>1. i \in 1..Len(Line(n, s)) BY <2>3, <3>2, <3>3
      <4>2. Line(n, s)[i] = Text(r) BY <3>1, <3>2, <4>1
      <4>3. QED BY <2>9, <4>1, <4>2 DEF OfThisRound, R, S
    <3>4. CASE i > Len(Line(n, s))
      <4>1. i = Len(Line(n, s)) + 1 \/ i = Len(Line(n, s)) + 2
        BY <2>3, <3>2, <3>4
      <4>2. Text(q) = Text(r) BY <2>2, <3>1, <3>2, <4>1
      <4>3. q = r BY <4>2 DEF Text
      <4>4. r = S BY <2>5, <4>3
      <4>5. QED BY <2>5, <2>10, <4>4
    <3>5. QED BY <2>3, <3>3, <3>4
  <2>13. NoneLost(n, s)'
    <3>1. SUFFICES ASSUME NEW r \in Rounds \ {0}, r \notin Excused(n)
                   PROVE  counted[n][r] + Copies(Line(n, s) \o FrameOf(q), r) = sent'[s][r]
      BY <2>7, <2>8 DEF NoneLost
    <3>2. counted[n][r] + Copies(Line(n, s), r) = sent[s][r]
      BY <2>9, <3>1 DEF NoneLost
    <3>3. Copies(Line(n, s) \o FrameOf(q), r) = Copies(Line(n, s), r) + IF q = r THEN 1 ELSE 0
      BY <2>3, CopiesOfFrame
    <3>4. sent'[s][r] = sent[s][r] + IF q = r THEN 1 ELSE 0
      BY <2>1 DEF CountTypes
    <3>5. counted[n][r] \in Nat /\ Copies(Line(n, s), r) \in Nat /\ sent[s][r] \in Nat
      BY <2>3, CopiesType DEF CountTypes
    <3>6. QED BY <3>2, <3>3, <3>4, <3>5
  <2>14. QED BY <2>7, <2>11, <2>12, <2>13, CallsUnmoved DEF LineInv
<1>3. QED BY <1>1, <1>2

LEMMA TestThreadLine ==
  ASSUME TypeInv, CountTypes, NEW n \in Node, NEW s \in Node, n # s, LineInv(n, s),
         OutInTurn(s)', NEW k \in Node, TestThread(k)
  PROVE  LineInv(n, s)'
<1>1. /\ now' = now /\ ahead' = ahead /\ listener' = listener /\ in' = in /\ since' = since
      /\ hurt' = hurt /\ counted' = counted
  BY DEF TestThread, BeginRound, SendPackage, EndRound, Sync
<1>2. CASE BeginRound(k) \/ EndRound(k)
  BY <1>1, <1>2, LineUnmoved DEF BeginRound, EndRound
<1>3. CASE SendPackage(k) \/ Sync(k)
  <2>1. PICK q \in Rounds : (q = 0 \/ q = round_array[k]) /\ send_message(k, q)
    BY <1>3, MaxRoundType DEF SendPackage, Sync, TypeInv
  <2>2. round_array' = round_array BY <1>3 DEF SendPackage, Sync
  <2>3. CASE k = s BY <1>1, <2>1, <2>2, <2>3, FrameOnLine
  <2>4. CASE k # s
    <3>1. sent'[s] = sent[s] /\ out'[s] = out[s] BY <2>1, <2>4, FrameWritten
    <3>2. QED BY <1>1, <3>1, LineUnmoved
  <2>5. QED BY <2>3, <2>4
<1>4. QED BY <1>2, <1>3 DEF TestThread
\* Calls of the listen thread.
LEMMA DealtCounts ==
  ASSUME TypeInv, CountTypes, NEW n \in Node, NEW g, NEW msg, msg[1] = g, Deal(n, msg)
  PROVE  /\ listener'[n] = NotReading
         /\ \A r \in Rounds : counted'[n][r] = counted[n][r]
                + IF g = Text(r) /\ r = CurrentRound(n) THEN 1 ELSE 0
<1>1. listener'[n] = NotReading BY DEF Deal, TypeInv
<1>2. \A r \in Rounds : counted[n][r] \in Nat BY DEF CountTypes
<1>3. CASE Recognised(n, msg)
  <2>1. counted' = [counted EXCEPT ![n][CurrentRound(n)] = @ + 1] BY <1>3 DEF Deal
  <2>2. g = Text(CurrentRound(n)) BY <1>3 DEF Recognised
  <2>3. ASSUME NEW r \in Rounds
        PROVE  counted'[n][r] = counted[n][r] + IF r = CurrentRound(n) THEN 1 ELSE 0
    BY <1>2, <2>1 DEF CountTypes
  <2>4. QED BY <1>1, <2>2, <2>3
<1>4. CASE ~Recognised(n, msg)
  <2>1. counted' = counted /\ g # Text(CurrentRound(n)) BY <1>4 DEF Deal, Recognised
  <2>2. QED BY <1>1, <1>2, <2>1
<1>5. QED BY <1>3, <1>4

\* What is claimed of the line when it stays as it is, and when it gets shorter.
LEMMA LineStays ==
  ASSUME NEW n \in Node, NEW s \in Node, LineInv(n, s), now' = now, ahead' = ahead,
         Line(n, s)' = Line(n, s), Excused(n)' = Excused(n), sent'[s] = sent[s],
         counted'[n] = counted[n]
  PROVE  FramesWhole(n, s)' /\ OfThisRound(n, s)' /\ NoneLost(n, s)'
<1>1. CurrentRound(n)' = CurrentRound(n) /\ CurrentRound(s)' = CurrentRound(s)
  BY Meanwhile
<1>2. QED BY <1>1 DEF LineInv, FramesWhole, OfThisRound, NoneLost

LEMMA LineShorter ==
  ASSUME NEW n \in Node, NEW s \in Node, LineInv(n, s), now' = now, ahead' = ahead,
         Excused(n)' = Excused(n),
         \A i \in 1..Len(Line(n, s)') :
             \E j \in 1..Len(Line(n, s)) : Line(n, s)'[i] = Line(n, s)[j]
  PROVE  OfThisRound(n, s)'
<1>1. CurrentRound(n)' = CurrentRound(n) /\ CurrentRound(s)' = CurrentRound(s)
  BY Meanwhile
<1>2. SUFFICES ASSUME NEW r \in Rounds \ {0}, NEW i \in 1..Len(Line(n, s)'),
                      Line(n, s)'[i] = Text(r)
               PROVE  /\ r <= CurrentRound(s)
                      /\ r \notin Excused(n) => /\ r = CurrentRound(s) /\ HasTurn(s, r)
                                                /\ CurrentRound(n) <= r
  BY <1>1 DEF OfThisRound
<1>3. PICK j \in 1..Len(Line(n, s)) : Line(n, s)'[i] = Line(n, s)[j] OBVIOUS
<1>4. Line(n, s)[j] = Text(r) BY <1>2, <1>3
<1>5. QED BY <1>4 DEF LineInv, OfThisRound

LEMMA BeginCallLine ==
  ASSUME Alternating, TypeInv, NEW n \in Node, NEW s \in Node, n # s, LineInv(n, s),
         BeginCall(n)
  PROVE  LineInv(n, s)'
<1> DEFINE R == CurrentRound(n)
           S == CurrentRound(s)
<1>1. /\ now' = now /\ ahead' = ahead /\ in' = in /\ out' = out /\ since' = since
      /\ hurt' = hurt /\ counted' = counted /\ sent' = sent
      /\ since[n] = 0 /\ ~listener[n].reading
  BY DEF BeginCall
<1>2. CASE ~MayReceive(n)
  <2>1. listener' = listener BY <1>2 DEF BeginCall
  <2>2. QED BY <1>1, <2>1, LineUnmoved
<1>3. CASE MayReceive(n)
  <2>1. Times(n, s) BY TimesHold
  <2>2. status'[n]["listen"] = status_chooser_transfer(ChooserOf(n, "listen"), "listen", R)
    BY StatusUpdated DEF BeginCall, TypeInv
  <2>3. HasTurn(s, R) BY <1>3, <2>1, <2>2, ListenChoice DEF MayReceive, Times
  <2>4. listener'[n] = [reading |-> TRUE, deadline |-> now + RoundLen, got |-> <<>>]
    BY <1>3 DEF BeginCall, TypeInv
  <2>5. /\ ListenerInv(n) /\ WaitsForTurn(n, s) /\ CallsEarly(n, s) /\ listener[n].got = <<>>
    BY <1>1 DEF LineInv, ListenerInv
  <2>6. CurrentRound(n)' = R /\ CurrentRound(s)' = S BY <1>1, Meanwhile
  <2>7. Excused(n)' = Excused(n) BY <1>1 DEF Excused
  <2>8. Line(n, s)' = Line(n, s)
    <3>1. listener'[n].got = listener[n].got BY <2>4, <2>5
    <3>2. QED BY <1>1, <3>1 DEF Line
  <2>9. NextTurn(n, s)' = R + 2 BY <2>3, <2>6 DEF NextTurn
  <2>10. R + 2 \notin Excused(n) => S <= R BY <1>1, <2>3, <2>5 DEF CallsEarly
  <2> HIDE DEF R, S
  <2>11. CallInTime(n, s)'
    <3>1. /\ now <= now + RoundLen
          /\ Begins(R + 1) <= now + RoundLen + ahead[n]
          /\ now + RoundLen + ahead[n] < Begins(R + 2)
      BY <2>1 DEF Times, R
    <3>2. S <= R => now + RoundLen + ahead[s] < Begins(R + 2)
      BY <2>1 DEF Times, R, S
    <3>3. QED BY <1>1, <2>4, <2>6, <2>7, <2>9, <2>10, <3>1, <3>2 DEF CallInTime
  <2>12. /\ ListenerInv(n)' /\ WaitsForTurn(n, s)' /\ CallsEarly(n, s)' /\ NothingRead(n, s)'
    BY <1>1, <2>4, <2>5, <2>6
       DEF ListenerInv, WaitsForTurn, CallsEarly, NothingRead, R, S
  <2>13. FramesWhole(n, s)' /\ OfThisRound(n, s)' /\ NoneLost(n, s)'
    BY <1>1, <2>7, <2>8, LineStays
  <2>14. QED BY <2>11, <2>12, <2>13 DEF LineInv
<1>4. QED BY <1>2, <1>3
LEMMA ReadPieceLine ==
  ASSUME TypeInv, CountTypes, NEW n \in Node, NEW s \in Node, n # s,
         LineInv(n, s), ReadPiece(n)
  PROVE  LineInv(n, s)'
<1> DEFINE R == CurrentRound(n)
           S == CurrentRound(s)
           x == in[n][1]
           d == listener[n].deadline
<1>1. /\ now' = now /\ ahead' = ahead /\ out' = out /\ since' = since
      /\ hurt' = hurt /\ sent' = sent
      /\ listener[n].reading /\ in[n] # <<>> /\ in'[n] = Tail(in[n])
  BY DEF ReadPiece, TypeInv
<1>2. Times(n, s) BY TimesHold
<1>3. /\ listener[n] \in Calls /\ in[n] \in Seq(Pieces) /\ out[s] \in Seq(Pieces)
      /\ Line(n, s) \in Seq(Pieces) /\ x \in Pieces
  <2>1. in[n] \in Seq(Pieces) /\ out[s] \in Seq(Pieces) /\ Line(n, s) \in Seq(Pieces)
    BY LineType
  <2>2. x \in Pieces BY <1>1, <2>1
  <2>3. QED BY <2>1, <2>2 DEF TypeInv
<1>4. /\ ListenerInv(n) /\ WaitsForTurn(n, s) /\ CallInTime(n, s) /\ FramesWhole(n, s)
      /\ OfThisRound(n, s) /\ NoneLost(n, s)
  BY DEF LineInv
<1>5. since[n] = 0 BY <1>1, <1>4 DEF ListenerInv
<1>6. HasTurn(s, S) /\ (R = S \/ R + 1 = S) BY <1>1, <1>4, <1>5 DEF WaitsForTurn
<1>7. CurrentRound(n)' = R /\ CurrentRound(s)' = S BY <1>1, Meanwhile
<1>8. Excused(n)' = Excused(n) /\ NextTurn(n, s)' = NextTurn(n, s)
  BY <1>1, <1>7 DEF Excused, NextTurn
<1>9. R + 1 = S => ~HasTurn(s, R)
  <2>1. R \in Nat BY <1>2 DEF Times
  <2>2. HasTurn(s, R + 1) = ~HasTurn(s, R) BY <2>1, TurnsChange
  <2>3. QED BY <1>6, <2>2
<1>10. R \in Nat /\ S \in Nat /\ \A r \in Rounds : r \in Nat
  BY <1>2, MaxRoundType DEF Times, Rounds
\* A call that may still read in the turn of s by the clock of s is of this turn.
<1>11. R + 1 = S => S \in Excused(n)
  <2>1. SUFFICES ASSUME R + 1 = S, S \notin Excused(n) PROVE FALSE OBVIOUS
  <2>2. NextTurn(n, s) = S BY <1>9, <2>1 DEF NextTurn
  <2>3. now <= d /\ d + ahead[s] < Begins(S)
    BY <1>1, <1>4, <2>1, <2>2 DEF CallInTime
  <2>4. d \in Nat BY <1>3, Constants DEF Calls
  <2>5. /\ now \in Nat /\ ahead[s] \in Nat /\ Clock(s) = now + ahead[s]
        /\ Begins(S) <= Clock(s) /\ Begins(S) \in Nat
    BY <1>2 DEF Times
  <2> HIDE DEF d, S
  <2>6. QED BY <2>3, <2>4, <2>5
<1> HIDE DEF R, S
<1>12. CASE listener[n].got = <<>>
  <2>1. Append(listener[n].got, x) = <<x>> /\ Len(<<x>>) = 1 BY <1>12
  <2>2. counted' = counted /\ listener'[n] = [listener[n] EXCEPT !.got = <<x>>]
    BY <2>1 DEF ReadPiece, TypeInv
  <2>3. /\ listener'[n].reading /\ listener'[n].deadline = d /\ listener'[n].got = <<x>>
    BY <1>1, <1>3, <2>2 DEF Calls
  <2>4. Line(n, s)' = Line(n, s)
    <3>1. Line(n, s)' = (<<x>> \o Tail(in[n])) \o out[s]
      BY <1>1, <2>3 DEF Line
    <3>2. Line(n, s) = (<<>> \o in[n]) \o out[s] BY <1>12 DEF Line
    <3>3. QED BY <1>1, <1>3, <3>1, <3>2, Taken
  <2>5. FramesWhole(n, s)' /\ OfThisRound(n, s)' /\ NoneLost(n, s)'
    BY <1>1, <1>8, <2>2, <2>4, LineStays
  <2>6. ListenerInv(n)' /\ WaitsForTurn(n, s)' /\ CallsEarly(n, s)'
    BY <1>1, <1>4, <1>5, <1>6, <1>7, <2>3
       DEF ListenerInv, WaitsForTurn, CallsEarly, R, S
  <2>7. NothingRead(n, s)'
    BY <1>6, <1>7, <1>10 DEF NothingRead
  <2>8. CallInTime(n, s)'
    BY <1>1, <1>4, <1>7, <1>8, <2>3 DEF CallInTime, R
  <2>9. QED BY <2>5, <2>6, <2>7, <2>8 DEF LineInv
<1>13. CASE \E g \in Pieces : listener[n].got = <<g>>
  <2>1. PICK g \in Pieces : listener[n].got = <<g>> BY <1>13
  <2>2. PICK msg : msg = Append(listener[n].got, x) OBVIOUS
  <2>3. Len(msg) = 2 /\ msg[1] = g
    <3>1. <<g>> \in Seq(Pieces) /\ Len(<<g>>) = 1 /\ <<g>>[1] = g OBVIOUS
    <3>2. QED BY <1>3, <2>1, <2>2, <3>1
  <2>4. Deal(n, msg) BY <2>2, <2>3 DEF ReadPiece
  <2>5. /\ listener'[n] = NotReading
        /\ \A r \in Rounds : counted'[n][r] = counted[n][r]
                + IF g = Text(r) /\ r = R THEN 1 ELSE 0
    BY <2>3, <2>4, DealtCounts DEF R
  <2>6. ~listener'[n].reading /\ listener'[n].got = <<>> BY <2>5 DEF NotReading
  <2> DEFINE l == Line(n, s)
  <2>7. /\ l # <<>> /\ l[1] = g /\ Len(l) >= 2 /\ l \in Seq(Pieces)
        /\ Tail(Tail(l)) = Tail(in[n]) \o out[s]
    BY <1>1, <2>1, DealtLine
  <2>8. Line(n, s)' = Tail(Tail(l))
    <3>1. <<>> \o Tail(in[n]) = Tail(in[n]) BY <1>1, <1>3
    <3>2. QED BY <1>1, <2>6, <2>7, <3>1 DEF Line
  <2> HIDE DEF l
  <2>9. /\ Tail(l) \in Seq(Pieces) /\ Tail(l) # <<>> /\ Tail(l)[1] = l[2]
        /\ Tail(Tail(l)) \in Seq(Pieces) /\ Len(Tail(Tail(l))) = Len(l) - 2
        /\ \A i \in 1..Len(l) - 2 : Tail(Tail(l))[i] = l[i + 2]
        /\ Len(l) \in Nat
    BY <2>7, TailOfTail, LenProperties
  <2>10. ListenerInv(n)' /\ WaitsForTurn(n, s)' /\ CallInTime(n, s)' /\ NothingRead(n, s)'
    BY <1>1, <1>4, <1>5, <1>6, <1>7, <2>6
       DEF ListenerInv, WaitsForTurn, CallInTime, NothingRead, R, S
  <2>11. CallsEarly(n, s)'
    <3>1. HasTurn(s, R) => S <= R BY <1>6, <1>9, <1>10
    <3>2. QED BY <1>7, <3>1 DEF CallsEarly
  <2>12. FramesWhole(n, s)'
    <3>1. SUFFICES ASSUME S \notin Excused(n) PROVE Framed(Tail(Tail(l)))
      BY <1>7, <1>8, <2>8 DEF FramesWhole
    <3>2. Framed(l) BY <1>4, <1>6, <3>1 DEF FramesWhole, S, l
    <3>3. QED BY <2>7, <3>2, FramedLess
  <2>13. OfThisRound(n, s)'
    <3>1. ASSUME NEW i \in 1..Len(Tail(Tail(l)))
          PROVE  \E j \in 1..Len(l) : Tail(Tail(l))[i] = l[j]
      <4>1. i + 2 \in 1..Len(l) /\ i \in 1..Len(l) - 2 BY <2>9
      <4>2. QED BY <2>9, <4>1
    <3>2. QED BY <1>1, <1>8, <2>8, <3>1, LineShorter DEF l
  <2>14. NoneLost(n, s)'
    <3>1. SUFFICES ASSUME NEW r \in Rounds \ {0}, r \notin Excused(n)
                   PROVE  counted'[n][r] + Copies(Tail(Tail(l)), r) = sent[s][r]
      BY <1>1, <1>8, <2>8 DEF NoneLost
    <3>2. counted[n][r] + Copies(l, r) = sent[s][r] BY <1>4, <3>1 DEF NoneLost, l
    <3>3. /\ Copies(l, r) = Copies(Tail(l), r) + IF l[1] = Text(r) THEN 1 ELSE 0
          /\ Copies(Tail(l), r) = Copies(Tail(Tail(l)), r) + IF l[2] = Text(r) THEN 1 ELSE 0
      BY <2>7, <2>9, CopiesTailIs
    <3>4. /\ counted[n][r] \in Nat /\ Copies(l, r) \in Nat /\ Copies(Tail(l), r) \in Nat
          /\ Copies(Tail(Tail(l)), r) \in Nat
      BY <2>7, <2>9, CopiesType DEF CountTypes
    <3>5. ASSUME NEW i \in {1, 2}, l[i] = Text(r) PROVE r = S /\ r = R
      <4>1. i \in 1..Len(l) BY <2>7, <2>9
      <4>2. r = S BY <1>4, <3>1, <3>5, <4>1 DEF OfThisRound, S, l
      <4>3. QED BY <1>6, <1>11, <3>1, <4>2
    <3>6. l[2] # Text(r)
      <4>1. SUFFICES ASSUME l[2] = Text(r) PROVE FALSE OBVIOUS
      <4>2. S \notin Excused(n) BY <3>1, <3>5, <4>1
      <4>3. Framed(l) BY <1>4, <1>6, <4>2 DEF FramesWhole, S, l
      <4>4. 2 \in 1..Len(l) /\ 2 % 2 = 0 BY <2>7, <2>9
      <4>5. l[2] = Padding BY <4>3, <4>4 DEF Framed
      <4>6. QED BY <4>1, <4>5 DEF Text, Padding
    <3>7. counted'[n][r] = counted[n][r] + IF l[1] = Text(r) THEN 1 ELSE 0
      BY <2>5, <2>7, <3>5
    <3>8. QED BY <3>2, <3>3, <3>4, <3>6, <3>7
  <2>15. QED BY <2>10, <2>11, <2>12, <2>13, <2>14 DEF LineInv
<1>14. listener[n].got \in Heads BY <1>3 DEF Calls
<1>15. QED BY <1>12, <1>13, <1>14 DEF Heads

LEMMA TimeoutLine ==
  ASSUME TypeInv, CountTypes, NEW n \in Node, NEW s \in Node, n # s,
         LineInv(n, s), NodeInv(s), Timeout(n)
  PROVE  LineInv(n, s)'
<1> DEFINE R == CurrentRound(n)
           S == CurrentRound(s)
           d == listener[n].deadline
           l == Line(n, s)
<1>1. /\ now' = now /\ ahead' = ahead /\ out' = out /\ since' = since
      /\ hurt' = hurt /\ sent' = sent /\ in' = in
      /\ listener[n].reading /\ in[n] = <<>> /\ now >= d
  BY DEF Timeout, TimedOut
<1>2. Times(n, s) BY TimesHold
<1>3. /\ listener[n].got \in Heads /\ listener[n].got \in Seq(Pieces)
      /\ out[s] \in Seq(Pieces) /\ in[n] \in Seq(Pieces) /\ l \in Seq(Pieces) /\ Len(l) \in Nat
      /\ listener[n] \in Calls
  BY LineType DEF TypeInv
<1>4. /\ ListenerInv(n) /\ WaitsForTurn(n, s) /\ CallInTime(n, s) /\ FramesWhole(n, s)
      /\ OfThisRound(n, s) /\ NoneLost(n, s)
  BY DEF LineInv
<1>5. d \in Nat BY <1>3, Constants DEF Calls
<1>6. d = now
  <2>1. now <= d BY <1>1, <1>4 DEF CallInTime
  <2>2. now \in Nat BY <1>2 DEF Times
  <2>3. QED BY <1>1, <1>5, <2>1, <2>2
<1>7. CurrentRound(n)' = R /\ CurrentRound(s)' = S BY <1>1, Meanwhile
<1>8. Excused(n)' = Excused(n) BY <1>1 DEF Excused
<1>9. ~HasTurn(s, R)
  <2>1. SUFFICES ASSUME HasTurn(s, R) PROVE FALSE OBVIOUS
  <2>2. Begins(R + 1) <= now + ahead[n] BY <1>1, <1>4, <1>6, <2>1 DEF CallInTime
  <2>3. QED BY <1>2, <2>2 DEF Times
\* When a call runs out no frame of which something is claimed is on the line.
<1>10. HasTurn(s, S) /\ S \notin Excused(n) => listener[n].got = <<>>
  <2>1. SUFFICES ASSUME HasTurn(s, S), S \notin Excused(n) PROVE listener[n].got = <<>>
    OBVIOUS
  <2>2. R # S BY <1>9, <2>1
  <2>3. S # R + 1
    <3>1. SUFFICES ASSUME S = R + 1 PROVE FALSE OBVIOUS
    <3>2. NextTurn(n, s) = S BY <1>9, <3>1 DEF NextTurn
    <3>3. now + ahead[s] < Begins(S) BY <1>1, <1>4, <1>6, <2>1, <3>2 DEF CallInTime
    <3>4. QED BY <1>2, <3>3 DEF Times
  <2>4. out[s] = <<>> BY <2>2, <2>3, OutNow
  <2>5. l = listener[n].got
    <3>1. l = (listener[n].got \o <<>>) \o <<>> BY <1>1, <2>4 DEF Line
    <3>2. QED BY <1>3, <3>1
  <2>6. Framed(l) BY <1>4, <2>1 DEF FramesWhole
  <2>7. QED BY <1>3, <2>5, <2>6, FramedShort
<1> HIDE DEF R, S, d, l
<1>11. listener'[n] = NotReading
  BY DEF Timeout, Deal, TypeInv
<1>12. ~listener'[n].reading /\ listener'[n].got = <<>> BY <1>11 DEF NotReading
<1>13. /\ ListenerInv(n)' /\ WaitsForTurn(n, s)' /\ CallInTime(n, s)' /\ NothingRead(n, s)'
       /\ CallsEarly(n, s)'
  BY <1>1, <1>4, <1>7, <1>9, <1>12
     DEF ListenerInv, WaitsForTurn, CallInTime, NothingRead, CallsEarly, R
<1>14. CASE listener[n].got = <<>>
  <2>1. counted' = counted BY <1>14 DEF Timeout
  <2>2. Line(n, s)' = Line(n, s)
    <3>1. listener'[n].got = listener[n].got BY <1>12, <1>14
    <3>2. QED BY <1>1, <3>1 DEF Line
  <2>3. FramesWhole(n, s)' /\ OfThisRound(n, s)' /\ NoneLost(n, s)'
    BY <1>1, <1>8, <2>1, <2>2, LineStays
  <2>4. QED BY <1>13, <2>3 DEF LineInv
<1>15. CASE \E g \in Pieces : listener[n].got = <<g>>
  <2>1. PICK g \in Pieces : listener[n].got = <<g>> BY <1>15
  <2>2. listener[n].got # <<>> /\ listener[n].got[1] = g BY <2>1
  <2>3. Deal(n, listener[n].got) BY <2>2 DEF Timeout
  <2>4. \A r \in Rounds : counted'[n][r] = counted[n][r]
                + IF g = Text(r) /\ r = R THEN 1 ELSE 0
    BY <2>2, <2>3, DealtCounts DEF R
  <2>5. ~(HasTurn(s, S) /\ S \notin Excused(n)) BY <1>10, <2>2
  <2>6. l # <<>> /\ l[1] = g /\ Tail(l) = in[n] \o out[s]
    BY <2>1, DealtLine DEF l
  <2>7. Line(n, s)' = Tail(l)
    <3>1. <<>> \o in[n] = in[n] BY <1>3
    <3>2. QED BY <1>1, <1>12, <2>6, <3>1 DEF Line
  <2>8. /\ Tail(l) \in Seq(Pieces) /\ Len(Tail(l)) = Len(l) - 1 /\ Len(l) >= 1
        /\ \A i \in 1..Len(l) - 1 : Tail(l)[i] = l[i + 1]
    BY <1>3, <2>6
  <2>9. FramesWhole(n, s)' BY <1>7, <1>8, <2>5 DEF FramesWhole
  <2>10. OfThisRound(n, s)'
    <3>1. ASSUME NEW i \in 1..Len(Tail(l))
          PROVE  \E j \in 1..Len(l) : Tail(l)[i] = l[j]
      <4>1. i + 1 \in 1..Len(l) /\ i \in 1..Len(l) - 1 BY <1>3, <2>8
      <4>2. QED BY <2>8, <4>1
    <3>2. QED BY <1>1, <1>8, <2>7, <3>1, LineShorter DEF l
  <2>11. NoneLost(n, s)'
    <3>1. SUFFICES ASSUME NEW r \in Rounds \ {0}, r \notin Excused(n)
                   PROVE  counted'[n][r] + Copies(Tail(l), r) = sent[s][r]
      BY <1>1, <1>8, <2>7 DEF NoneLost
    <3>2. counted[n][r] + Copies(l, r) = sent[s][r] BY <1>4, <3>1 DEF NoneLost, l
    <3>3. Copies(l, r) = Copies(Tail(l), r) + IF l[1] = Text(r) THEN 1 ELSE 0
      BY <1>3, <2>6, CopiesTailIs
    <3>4. counted[n][r] \in Nat /\ Copies(Tail(l), r) \in Nat
      BY <2>8, CopiesType DEF CountTypes
    <3>5. g # Text(r)
      <4>1. SUFFICES ASSUME l[1] = Text(r) PROVE FALSE BY <2>6
      <4>2. 1 \in 1..Len(l) BY <1>3, <2>8
      <4>3. r = S /\ HasTurn(s, r)
        BY <1>4, <3>1, <4>1, <4>2 DEF OfThisRound, S, l
      <4>4. QED BY <2>5, <3>1, <4>3
    <3>6. counted'[n][r] = counted[n][r] BY <2>4, <3>4, <3>5
    <3>7. QED BY <2>6, <3>2, <3>3, <3>4, <3>5, <3>6
  <2>12. QED BY <1>13, <2>9, <2>10, <2>11 DEF LineInv
<1>16. QED BY <1>3, <1>14, <1>15 DEF Heads
LEMMA ListenThreadLine ==
  ASSUME Alternating, TypeInv, CountTypes, NEW n \in Node, NEW s \in Node, n # s,
         LineInv(n, s), NodeInv(s), NEW k \in Node, ListenThread(k)
  PROVE  LineInv(n, s)'
<1>1. CASE k = n
  BY <1>1, BeginCallLine, ReadPieceLine, TimeoutLine DEF ListenThread
<1>2. CASE k # n
  <2>1. /\ sent' = sent /\ out' = out /\ counted'[n] = counted[n] /\ in'[n] = in[n]
        /\ listener'[n] = listener[n]
    BY <1>2, ListenThreadCounts
  <2>2. now' = now /\ ahead' = ahead /\ since' = since /\ hurt' = hurt
    BY DEF ListenThread, BeginCall, ReadPiece, Timeout
  <2>3. QED BY <2>1, <2>2, LineUnmoved
<1>3. QED BY <1>1, <1>2

\* The wire, faults and restarts.
LEMMA TransmitLine ==
  ASSUME TypeInv, NEW n \in Node, NEW s \in Node, n # s, LineInv(n, s), NodeInv(s),
         NEW k \in Node, Transmit(k)
  PROVE  LineInv(n, s)'
<1>1. /\ now' = now /\ ahead' = ahead /\ listener' = listener /\ since' = since
      /\ hurt' = hurt /\ counted' = counted /\ sent' = sent
      /\ out[k] # <<>> /\ out' = [out EXCEPT ![k] = Tail(@)]
      /\ in' = [in EXCEPT ![Peer(k)] = Append(@, out[k][1])]
  BY DEF Transmit, Shift
<1>2. CASE k = s
  <2>1. Peer(s) = n BY PeerOfNode
  <2>2. out'[s] = Tail(out[s]) /\ in'[n] = Append(in[n], out[s][1]) /\ out[s] # <<>>
    BY <1>1, <1>2, <2>1 DEF TypeInv
  <2>3. Line(n, s)' = Line(n, s)
    <3>1. Line(n, s)' = (listener[n].got \o Append(in[n], out[s][1])) \o Tail(out[s])
      BY <1>1, <2>2 DEF Line
    <3>2. /\ listener[n].got \in Seq(Pieces) /\ in[n] \in Seq(Pieces)
          /\ out[s] \in Seq(Pieces)
      BY LineType
    <3>3. QED BY <2>2, <3>1, <3>2, Shifted DEF Line
  <2>4. CurrentRound(n)' = CurrentRound(n) /\ CurrentRound(s)' = CurrentRound(s)
    BY <1>1, Meanwhile
  <2>5. Excused(n)' = Excused(n) /\ NextTurn(n, s)' = NextTurn(n, s)
    BY <1>1, <2>4 DEF Excused, NextTurn
  <2>6. FramesWhole(n, s)' /\ OfThisRound(n, s)' /\ NoneLost(n, s)'
    BY <1>1, <2>3, <2>5, LineStays
  <2>7. WaitsForTurn(n, s)' BY <2>2, <2>4, OutNow DEF WaitsForTurn
  <2>8. /\ ListenerInv(n) /\ CallInTime(n, s) /\ CallsEarly(n, s) /\ NothingRead(n, s)
    BY DEF LineInv
  <2>9. ListenerInv(n)' /\ CallsEarly(n, s)' /\ NothingRead(n, s)'
    BY <1>1, <2>4, <2>5, <2>8 DEF ListenerInv, CallsEarly, NothingRead
  <2>10. CallInTime(n, s)' BY <1>1, <2>4, <2>5, <2>8 DEF CallInTime
  <2>11. QED BY <2>6, <2>7, <2>9, <2>10 DEF LineInv
<1>3. CASE k # s
  <2>1. Peer(k) = s BY <1>3, PeerOfNode
  <2>2. out'[s] = out[s] /\ in'[n] = in[n] BY <1>1, <1>3, <2>1 DEF TypeInv
  <2>3. QED BY <1>1, <2>2, LineUnmoved
<1>4. QED BY <1>2, <1>3

LEMMA Cut ==
  ASSUME NEW c \in Seq(Pieces), NEW u \in Seq(Pieces), NEW v \in Seq(Pieces),
         v = <<>> \/ (u # <<>> /\ v = Tail(u))
  PROVE  \A i \in 1..Len(c \o v) : \E j \in 1..Len(c \o u) : (c \o v)[i] = (c \o u)[j]
<1>1. /\ Len(c \o v) = Len(c) + Len(v) /\ Len(c \o u) = Len(c) + Len(u)
      /\ Len(c) \in Nat /\ Len(u) \in Nat /\ Len(v) \in Nat
      /\ \A i \in 1..Len(c) + Len(v) :
             (c \o v)[i] = IF i <= Len(c) THEN c[i] ELSE v[i - Len(c)]
      /\ \A i \in 1..Len(c) + Len(u) :
             (c \o u)[i] = IF i <= Len(c) THEN c[i] ELSE u[i - Len(c)]
  BY ConcatProperties, LenProperties
<1>2. \/ Len(v) = 0
      \/ Len(v) = Len(u) - 1 /\ \A i \in 1..Len(v) : v[i] = u[i + 1]
  <2>1. CASE v = <<>> BY <2>1
  <2>2. CASE u # <<>> /\ v = Tail(u) BY <2>2, HeadTailProperties
  <2>3. QED BY <2>1, <2>2
<1>3. ASSUME NEW i \in 1..Len(c \o v)
      PROVE  \E j \in 1..Len(c \o u) : (c \o v)[i] = (c \o u)[j]
  <2>1. CASE i <= Len(c)
    <3>1. i \in 1..Len(c \o u) /\ (c \o v)[i] = (c \o u)[i] BY <1>1, <2>1
    <3>2. QED BY <3>1
  <2>2. CASE i > Len(c)
    <3>1. i - Len(c) \in 1..Len(v) BY <1>1, <2>2
    <3>2. /\ Len(v) = Len(u) - 1 /\ v[i - Len(c)] = u[(i - Len(c)) + 1]
      BY <1>1, <1>2, <3>1
    <3>3. /\ i + 1 \in 1..Len(c) + Len(u) /\ ~(i + 1 <= Len(c)) /\ ~(i <= Len(c))
          /\ (i + 1) - Len(c) = (i - Len(c)) + 1 /\ i \in 1..Len(c) + Len(v)
      BY <1>1, <2>2, <3>2
    <3>4. (c \o v)[i] = (c \o u)[i + 1] BY <1>1, <3>2, <3>3
    <3>5. QED BY <1>1, <3>3, <3>4
  <2>3. QED BY <1>1, <2>1, <2>2
<1>4. QED BY <1>3

\* A fault at the port of s harms the round of s.
LEMMA PortCut ==
  ASSUME TypeInv, TypeInv', NEW n \in Node, NEW s \in Node, LineInv(n, s),
         now' = now, ahead' = ahead, listener'[n] = listener[n], in'[n] = in[n],
         since'[n] = since[n], counted'[n] = counted[n], sent'[s] = sent[s],
         hurt'[n] = hurt[n] \cup {CurrentRound(s)},
         out'[s] = <<>> \/ (out[s] # <<>> /\ out'[s] = Tail(out[s]))
  PROVE  LineInv(n, s)'
<1>1. CurrentRound(s)' = CurrentRound(s) BY Meanwhile
<1>2. Excused(n)' = Excused(n) \cup {CurrentRound(s)} BY DEF Excused
<1>3. /\ ListenerInv(n)' /\ WaitsForTurn(n, s)' /\ CallInTime(n, s)'
      /\ CallsEarly(n, s)' /\ NothingRead(n, s)'
  BY <1>2, CallsUnmoved
<1>4. FramesWhole(n, s)' BY <1>1, <1>2 DEF FramesWhole
<1>5. \A i \in 1..Len(Line(n, s)') :
          \E j \in 1..Len(Line(n, s)) : Line(n, s)'[i] = Line(n, s)[j]
  <2>1. /\ listener[n].got \o in[n] \in Seq(Pieces) /\ out[s] \in Seq(Pieces)
        /\ out'[s] \in Seq(Pieces)
    BY LineType, ConcatProperties DEF TypeInv
  <2>2. Line(n, s)' = (listener[n].got \o in[n]) \o out'[s] BY DEF Line
  <2>3. PICK c, u, v : c = listener[n].got \o in[n] /\ u = out[s] /\ v = out'[s]
    OBVIOUS
  <2>4. \A i \in 1..Len(c \o v) : \E j \in 1..Len(c \o u) : (c \o v)[i] = (c \o u)[j]
    <3>1. /\ c \in Seq(Pieces) /\ u \in Seq(Pieces) /\ v \in Seq(Pieces)
          /\ v = <<>> \/ (u # <<>> /\ v = Tail(u))
      BY <2>1, <2>3
    <3>2. QED BY <3>1, Cut
  <2>5. Line(n, s)' = c \o v /\ Line(n, s) = c \o u BY <2>2, <2>3 DEF Line
  <2>6. QED BY <2>4, <2>5
<1>6. OfThisRound(n, s)' /\ NoneLost(n, s)' BY <1>2, <1>5, LineLess
<1>7. QED BY <1>3, <1>4, <1>6 DEF LineInv
HurtTypes == hurt \in [Node -> SUBSET Nat]

LEMMA LoseByteLine ==
  ASSUME TypeInv, TypeInv', HurtTypes, NEW n \in Node, NEW s \in Node, n # s,
         LineInv(n, s), NEW k \in Node, LoseByte(k)
  PROVE  LineInv(n, s)'
<1>1. /\ now' = now /\ ahead' = ahead /\ listener' = listener /\ since' = since
      /\ counted' = counted /\ sent' = sent /\ in' = in
      /\ out[k] # <<>> /\ out' = [out EXCEPT ![k] = Tail(@)]
      /\ hurt' = [hurt EXCEPT ![Peer(k)] = @ \cup {CurrentRound(k)}]
  BY DEF LoseByte, Shift, Hurts
<1>2. CASE k = s
  <2>1. Peer(s) = n BY PeerOfNode
  <2>2. hurt'[n] = hurt[n] \cup {CurrentRound(s)} BY <1>1, <1>2, <2>1 DEF HurtTypes
  <2>3. out[s] # <<>> /\ out'[s] = Tail(out[s]) BY <1>1, <1>2 DEF TypeInv
  <2>4. QED BY <1>1, <2>2, <2>3, PortCut
<1>3. CASE k # s
  <2>1. Peer(k) = s BY <1>3, PeerOfNode
  <2>2. out'[s] = out[s] /\ hurt'[n] = hurt[n]
    BY <1>1, <1>3, <2>1 DEF TypeInv, HurtTypes
  <2>3. QED BY <1>1, <2>2, LineUnmoved
<1>4. QED BY <1>2, <1>3

LEMMA CrashLine ==
  ASSUME TypeInv, TypeInv', NEW n \in Node, NEW s \in Node, n # s, LineInv(n, s),
         NodeInv(s), NEW k \in Node, Crash(k)
  PROVE  LineInv(n, s)'
<1> DEFINE R == CurrentRound(n)
           S == CurrentRound(s)
<1>1. /\ now' = now /\ ahead' = ahead /\ hurt' = hurt /\ in' = in /\ out' = out
      /\ counted' = counted /\ sent' = sent /\ since[k] = 0
      /\ since' = [since EXCEPT ![k] = CurrentRound(k)]
      /\ listener' = [listener EXCEPT ![k] = NotReading]
  BY DEF Crash
<1>2. CASE k # n
  <2>1. since'[n] = since[n] /\ listener'[n] = listener[n] BY <1>1, <1>2 DEF TypeInv
  <2>2. QED BY <1>1, <2>1, LineUnmoved
<1>3. CASE k = n
  <2>1. since[n] = 0 /\ since'[n] = R /\ ~listener'[n].reading /\ listener'[n].got = <<>>
    BY <1>1, <1>3 DEF TypeInv, NotReading
  <2>2. Times(n, s) BY TimesHold
  <2>3. R \in Nat \ {0} /\ S \in Nat /\ S \in Rounds /\ \A r \in Rounds : r \in Nat
    BY <2>2, MaxRoundType DEF Times, Rounds
  <2>4. CurrentRound(n)' = R /\ CurrentRound(s)' = S BY <1>1, Meanwhile
  <2>5. /\ Excused(n) = hurt[n]
        /\ Excused(n)' = hurt[n] \cup {r \in Rounds : R <= r}
    BY <1>1, <2>1, <2>3 DEF Excused
  <2>6. /\ ListenerInv(n)' /\ WaitsForTurn(n, s)' /\ CallInTime(n, s)'
        /\ CallsEarly(n, s)' /\ NothingRead(n, s)'
    BY <2>1, <2>3, <2>4
       DEF ListenerInv, WaitsForTurn, CallInTime, CallsEarly, NothingRead
  <2>7. listener[n].got \in Seq(Pieces) /\ in[n] \in Seq(Pieces) /\ out[s] \in Seq(Pieces)
    BY LineType
  <2>8. Line(n, s)' = in[n] \o out[s]
    <3>1. Line(n, s)' = (<<>> \o in[n]) \o out[s] BY <1>1, <2>1 DEF Line
    <3>2. <<>> \o in[n] = in[n] BY <2>7
    <3>3. QED BY <3>1, <3>2
\* A turn that the receiver is already beyond has left nothing on the line.
  <2>9. FramesWhole(n, s)'
    <3>1. SUFFICES ASSUME HasTurn(s, S), S \notin Excused(n)'
                   PROVE  Framed(in[n] \o out[s])
      BY <2>4, <2>8 DEF FramesWhole
    <3>2. S < R BY <2>3, <2>5, <3>1
    <3>3. R # S /\ R + 1 # S BY <2>3, <3>2
    <3>4. out[s] = <<>> BY <3>3, OutNow
    <3>5. in[n] = <<>> BY <2>1, <3>3 DEF LineInv, WaitsForTurn
    <3>6. in[n] \o out[s] = <<>> BY <3>4, <3>5
    <3>7. QED BY <3>6, FramedEmpty
  <2>10. \A i \in 1..Len(Line(n, s)') :
             \E j \in 1..Len(Line(n, s)) : Line(n, s)'[i] = Line(n, s)[j]
    <3>1. PICK g, q, u, l : /\ g = listener[n].got /\ q = in[n] /\ u = out[s]
                            /\ l = Line(n, s)
      OBVIOUS
    <3>2. /\ g \in Seq(Pieces) /\ q \in Seq(Pieces) /\ u \in Seq(Pieces)
          /\ l = (g \o q) \o u
      BY <2>7, <3>1 DEF Line
    <3>3. \A i \in 1..Len(q \o u) : Len(g) + i \in 1..Len(l) /\ l[Len(g) + i] = (q \o u)[i]
      BY <3>2, PartOfLine
    <3>4. \A i \in 1..Len(q \o u) : \E j \in 1..Len(l) : (q \o u)[i] = l[j]
      BY <3>3
    <3>5. Line(n, s)' = q \o u /\ Line(n, s) = l BY <2>8, <3>1
    <3>6. QED BY <3>4, <3>5
  <2>11. \A r \in Rounds \ {0} : r \notin Excused(n)' => r \notin Excused(n) /\ r < R
    BY <2>3, <2>5
  <2>12. OfThisRound(n, s)' /\ NoneLost(n, s)'
    BY <1>1, <2>10, <2>11, LineLess
  <2>13. QED BY <2>6, <2>9, <2>12 DEF LineInv
<1>4. QED BY <1>2, <1>3

\* A node that starts with empty buffers excuses the rounds it was down in, and
\* those its first call may still reach into.
LEMMA StartLine ==
  ASSUME TypeInv, TypeInv', CountTypes, NEW n \in Node, NEW s \in Node, n # s,
         LineInv(n, s), NodeInv(s), CountedOnce(n), SentOnce(s), NEW k \in Node, Start(k)
  PROVE  LineInv(n, s)'
<1> DEFINE R == CurrentRound(n)
           S == CurrentRound(s)
<1>1. /\ now' = now /\ ahead' = ahead /\ listener' = listener
      /\ counted' = counted /\ sent' = sent /\ since[k] # 0
      /\ since' = [since EXCEPT ![k] = 0]
      /\ in' = [in EXCEPT ![k] = <<>>] /\ out' = [out EXCEPT ![k] = <<>>]
      /\ hurt'[n] = hurt[n] \cup IF n = k THEN since[k]..CurrentRound(k) + 2
                                 ELSE IF out[k] # <<>> THEN {CurrentRound(k)} ELSE {}
  BY DEF Start
<1>2. CASE k = s
  <2>1. /\ in'[n] = in[n] /\ out'[s] = <<>> /\ since'[n] = since[n]
        /\ hurt'[n] = hurt[n] \cup IF out[s] # <<>> THEN {S} ELSE {}
    BY <1>1, <1>2 DEF TypeInv
  <2>2. CASE out[s] # <<>>
    <3>1. hurt'[n] = hurt[n] \cup {S} BY <2>1, <2>2
    <3>2. QED BY <1>1, <2>1, <3>1, PortCut
  <2>3. CASE out[s] = <<>>
    <3>1. hurt'[n] = hurt[n] BY <2>1, <2>3
    <3>2. QED BY <1>1, <2>1, <2>3, <3>1, LineUnmoved
  <2>4. QED BY <2>2, <2>3
<1>3. CASE k = n
  <2>1. /\ since[n] # 0 /\ since'[n] = 0 /\ in'[n] = <<>> /\ out'[s] = out[s]
        /\ hurt'[n] = hurt[n] \cup (since[n]..R + 2)
    BY <1>1, <1>3 DEF TypeInv
  <2>2. ~listener[n].reading /\ listener[n].got = <<>> /\ since[n] <= R
    BY <2>1 DEF LineInv, ListenerInv
  <2>3. Times(n, s) BY TimesHold
  <2>4. /\ R \in Nat /\ S \in Nat /\ S \in Rounds /\ since[n] \in Nat /\ S <= R + 1
        /\ \A r \in Rounds : r \in Nat
    <3>1. R \in Nat /\ S \in Nat /\ S \in Rounds /\ S <= R + 1 BY <2>3 DEF Times
    <3>2. QED BY <3>1, MaxRoundType DEF TypeInv, Rounds
  <2>5. CurrentRound(n)' = R /\ CurrentRound(s)' = S BY <1>1, Meanwhile
  <2>6. /\ Excused(n) = hurt[n] \cup {r \in Rounds : since[n] <= r}
        /\ Excused(n)' = hurt[n] \cup (since[n]..R + 2)
    BY <2>1 DEF Excused
  <2>7. /\ ListenerInv(n)' /\ WaitsForTurn(n, s)' /\ CallInTime(n, s)' /\ NothingRead(n, s)'
    BY <1>1, <2>1, <2>2, <2>4, <2>5
       DEF ListenerInv, WaitsForTurn, CallInTime, NothingRead
  <2>8. CallsEarly(n, s)'
    <3>1. R + 2 \in Excused(n)' BY <2>2, <2>4, <2>6
    <3>2. QED BY <2>5, <3>1 DEF CallsEarly
  <2>9. out[s] \in Seq(Pieces) /\ in[n] \in Seq(Pieces) BY LineType
  <2>10. Line(n, s)' = out[s]
    <3>1. Line(n, s)' = (<<>> \o <<>>) \o out[s] BY <1>1, <2>1, <2>2 DEF Line
    <3>2. (<<>> \o <<>>) \o out[s] = out[s] BY <2>9
    <3>3. QED BY <3>1, <3>2
  <2>11. FramesWhole(n, s)'
    <3>1. SUFFICES ASSUME HasTurn(s, S), S \notin Excused(n)' PROVE Framed(out[s])
      BY <2>5, <2>10 DEF FramesWhole
    <3>2. S < R BY <2>2, <2>4, <2>6, <3>1
    <3>3. R # S /\ R + 1 # S BY <2>4, <3>2
    <3>4. out[s] = <<>> BY <3>3, OutNow
    <3>5. QED BY <3>4, FramedEmpty
  <2>12. \A i \in 1..Len(Line(n, s)') :
             \E j \in 1..Len(Line(n, s)) : Line(n, s)'[i] = Line(n, s)[j]
    <3>1. PICK g, q, u, l : /\ g = listener[n].got /\ q = in[n] /\ u = out[s]
                            /\ l = Line(n, s)
      OBVIOUS
    <3>2. /\ g \in Seq(Pieces) /\ q \in Seq(Pieces) /\ u \in Seq(Pieces)
          /\ l = (g \o q) \o u
      BY LineType, <3>1 DEF Line
    <3>3. \A i \in 1..Len(u) : Len(g \o q) + i \in 1..Len(l) /\ l[Len(g \o q) + i] = u[i]
      BY <3>2, PartOfLine
    <3>4. \A i \in 1..Len(u) : \E j \in 1..Len(l) : u[i] = l[j]
      BY <3>3
    <3>5. QED BY <2>10, <3>1, <3>4
\* Nothing was sent yet in the rounds excused no longer.
  <2>13. ASSUME NEW r \in Rounds \ {0}, r \notin Excused(n)'
         PROVE  \/ r \notin Excused(n) /\ r < R
                \/ r > S /\ sent[s][r] = 0 /\ counted[n][r] = 0
    <3>1. r \notin hurt[n] /\ (r < since[n] \/ r > R + 2) /\ r \in Nat
      BY <2>4, <2>6, <2>13
    <3>2. CASE r < since[n]
      <4>1. r \notin Excused(n) BY <2>4, <2>6, <3>1, <3>2
      <4>2. r < R BY <2>2, <2>4, <3>1, <3>2
      <4>3. QED BY <4>1, <4>2
    <3>3. CASE r > R + 2
      <4>1. r > S BY <2>4, <3>1, <3>3
      <4>2. sent[s][r] \in Nat /\ counted[n][r] \in Nat BY DEF CountTypes
      <4>3. sent[s][r] = 0 BY <2>4, <3>1, <4>1, <4>2 DEF SentOnce
      <4>4. counted[n][r] <= sent[Peer(n)][r] BY CountBelowSent
      <4>5. Peer(n) = s BY PeerOfNode
      <4>6. QED BY <4>1, <4>2, <4>3, <4>4, <4>5
    <3>4. QED BY <3>1, <3>2, <3>3
  <2>14. OfThisRound(n, s)' /\ NoneLost(n, s)'
    BY <1>1, <2>12, <2>13, LineLess
  <2>15. QED BY <2>7, <2>8, <2>11, <2>14 DEF LineInv
<1>4. k = n \/ k = s BY PeerOfNode
<1>5. QED BY <1>2, <1>3, <1>4
\* The invariant, and the theorem.
LEMMA LineKept ==
  ASSUME Alternating, TypeInv, TypeInv', CountTypes, HurtTypes, TurnInv, TurnInv',
         \A m \in Node : SentOnce(m) /\ CountedOnce(m),
         NEW n \in Node, NEW s \in Node, n # s, LineInv(n, s), [Next]_vars
  PROVE  LineInv(n, s)'
<1>1. NodeInv(s) /\ OutInTurn(s)' /\ SentOnce(s) /\ CountedOnce(n)
  BY DEF TurnInv, NodeInv
<1>2. CASE Tick BY <1>2, TickLine
<1>3. ASSUME NEW k \in Node, TestThread(k) PROVE LineInv(n, s)'
  BY <1>1, <1>3, TestThreadLine
<1>4. ASSUME NEW k \in Node, ListenThread(k) PROVE LineInv(n, s)'
  BY <1>1, <1>4, ListenThreadLine
<1>5. ASSUME NEW k \in Node, Transmit(k) PROVE LineInv(n, s)'
  BY <1>1, <1>5, TransmitLine
<1>6. ASSUME NEW k \in Node, LoseByte(k) PROVE LineInv(n, s)'
  BY <1>6, LoseByteLine
<1>7. ASSUME NEW k \in Node, Crash(k) PROVE LineInv(n, s)'
  BY <1>1, <1>7, CrashLine
<1>8. ASSUME NEW k \in Node, Start(k) PROVE LineInv(n, s)'
  BY <1>1, <1>8, StartLine
<1>9. CASE UNCHANGED vars BY <1>9, LineUnmoved DEF vars
<1>10. QED BY <1>2, <1>3, <1>4, <1>5, <1>6, <1>7, <1>8, <1>9 DEF Next

LEMMA LineInit ==
  ASSUME Init, TypeInv, NEW n \in Node, NEW s \in Node
  PROVE  LineInv(n, s)
<1>1. /\ now = RoundLen /\ listener[n] = NotReading /\ in[n] = <<>> /\ out[s] = <<>>
      /\ since[n] = 0 /\ hurt[n] = {}
      /\ \A r \in Rounds : counted[n][r] = 0 /\ sent[s][r] = 0
  BY DEF Init
<1>2. ~listener[n].reading /\ listener[n].got = <<>> BY <1>1 DEF NotReading
<1>3. Times(n, s) BY TimesHold
<1>4. ASSUME NEW k \in Node PROVE CurrentRound(k) = 1
  <2>1. /\ Clock(k) \in Nat /\ Clock(k) = RoundLen + ahead[k]
        /\ ahead[k] \in Nat /\ ahead[k] < RoundLen
    BY <1>1, Constants DEF Clock, TypeInv
  <2>2. Begins(1) = RoundLen /\ Begins(1 + 1) = RoundLen + RoundLen BY Constants DEF Begins
  <2>3. Clock(k) \div RoundLen = 1 BY <2>1, <2>2, Constants, DivisionIs
  <2>4. QED BY <2>3 DEF CurrentRound, Clock
<1>5. Line(n, s) = <<>> BY <1>1, <1>2 DEF Line
<1>6. Len(<<>>) = 0 /\ \A r : Copies(<<>>, r) = 0 BY CopiesEmpty
<1>7. ListenerInv(n) /\ WaitsForTurn(n, s) /\ CallInTime(n, s) /\ NothingRead(n, s)
  BY <1>1, <1>2, <1>4 DEF ListenerInv, WaitsForTurn, CallInTime, NothingRead
<1>8. CallsEarly(n, s) BY <1>4 DEF CallsEarly
<1>9. FramesWhole(n, s) BY <1>5, FramedEmpty DEF FramesWhole
<1>10. OfThisRound(n, s) BY <1>5, <1>6 DEF OfThisRound
<1>11. NoneLost(n, s) BY <1>1, <1>5, <1>6 DEF NoneLost
<1>12. QED BY <1>7, <1>8, <1>9, <1>10, <1>11 DEF LineInv

LEMMA HurtHolds == Spec => []HurtTypes
<1>1. Init => HurtTypes BY DEF Init, HurtTypes
<1>2. TypeInv /\ HurtTypes /\ [Next]_vars => HurtTypes'
  <2> SUFFICES ASSUME TypeInv, HurtTypes, [Next]_vars PROVE HurtTypes' OBVIOUS
  <2>1. ASSUME NEW k \in Node PROVE CurrentRound(k) \in Nat
    BY RoundsOfClock, MaxRoundType DEF TypeInv, Rounds
  <2>2. ASSUME NEW k \in Node, LoseByte(k) PROVE HurtTypes'
    <3>1. Peer(k) \in Node /\ CurrentRound(k) \in Nat BY <2>1, PeerOfNode
    <3>2. hurt' = [hurt EXCEPT ![Peer(k)] = @ \cup {CurrentRound(k)}]
      BY <2>2 DEF LoseByte, Hurts
    <3>3. QED BY <3>1, <3>2 DEF HurtTypes
  <2>3. ASSUME NEW k \in Node, Start(k) PROVE HurtTypes'
    <3>1. CurrentRound(k) \in Nat /\ since[k] \in Nat
      BY <2>1, MaxRoundType DEF TypeInv, Rounds
    <3>2. since[k]..CurrentRound(k) + 2 \subseteq Nat /\ {CurrentRound(k)} \subseteq Nat
      BY <3>1
    <3>3. hurt' = [m \in Node |-> hurt[m] \cup
                      IF m = k THEN since[k]..CurrentRound(k) + 2
                      ELSE IF out[k] # <<>> THEN {CurrentRound(k)} ELSE {}]
      BY <2>3 DEF Start
    <3>4. QED BY <3>2, <3>3 DEF HurtTypes
  <2>4. CASE \/ Tick
             \/ \E k \in Node : TestThread(k) \/ ListenThread(k) \/ Transmit(k) \/ Crash(k)
             \/ UNCHANGED vars
    <3>1. hurt' = hurt
      BY <2>4 DEF Tick, TestThread, BeginRound, SendPackage, EndRound, Sync, ListenThread,
                  BeginCall, ReadPiece, Timeout, Transmit, Crash, vars
    <3>2. QED BY <3>1 DEF HurtTypes
  <2>5. QED BY <2>2, <2>3, <2>4 DEF Next
<1>3. QED BY <1>1, <1>2, TypesHold, PTL DEF Spec

\* What is counted of a round that is over, when nothing of it is on the line.
LEMMA NoneMissing ==
  ASSUME TypeInv, CountTypes, \A m \in Node : SentOnce(m) /\ CountedOnce(m),
         \A n, s \in Node : n # s => LineInv(n, s)
  PROVE  HarmConfined
<1> SUFFICES ASSUME NEW n \in Node, since[n] = 0,
                    NEW r \in 0..CurrentRound(n) - 1, r \notin hurt[n]
             PROVE  counted[n][r] = sent[Peer(n)][r]
  BY DEF HarmConfined
<1>1. PICK s \in Node : s = Peer(n) /\ s # n BY PeerOfNode
<1>2. LineInv(n, s) BY <1>1
<1>3. /\ CurrentRound(n) \in 1..MaxRound /\ CurrentRound(s) \in Nat /\ MaxRound \in Nat
  BY RoundsOfClock, MaxRoundType DEF TypeInv, Rounds
<1>4. r \in Nat /\ r < CurrentRound(n) /\ r \in Rounds BY <1>3 DEF Rounds
<1>5. /\ sent[s][r] \in Nat /\ counted[n][r] \in Nat BY <1>4 DEF CountTypes
<1>6. CASE r = 0
  <2>1. counted[n][r] = 0 BY <1>6 DEF CountedOnce
  <2>2. ~(sent[s][r] > 0) BY <1>4, <1>6 DEF SentOnce
  <2>3. QED BY <1>1, <1>5, <2>1, <2>2
<1>7. CASE r # 0
  <2>1. r \in Rounds \ {0} /\ r \notin Excused(n) BY <1>4, <1>7 DEF Excused
  <2>2. ASSUME NEW i \in 1..Len(Line(n, s)), Line(n, s)[i] = Text(r) PROVE FALSE
    <3>1. CurrentRound(n) <= r BY <1>2, <2>1, <2>2 DEF LineInv, OfThisRound
    <3>2. QED BY <1>3, <1>4, <3>1
  <2>3. Line(n, s) \in Seq(Pieces) BY LineType
  <2>4. Copies(Line(n, s), r) = 0 BY <2>2, <2>3, CopiesNone
  <2>5. counted[n][r] + Copies(Line(n, s), r) = sent[s][r]
    BY <1>2, <2>1 DEF LineInv, NoneLost
  <2>6. QED BY <1>1, <1>5, <2>4, <2>5
<1>8. QED BY <1>6, <1>7

\* When the choosers of the two ends alternate, every test frame of a round that
\* is over has been recognised, for any number of faults in any order, but in
\* the rounds in which a byte was lost or the receiver was down, and the two
\* after it is up again: what a fault leaves behind on the line is used up by
\* the end of a turn, because every call ends before the next.
THEOREM HarmIsConfined ==
  ASSUME Alternating
  PROVE  Spec => []HarmConfined
<1> DEFINE Lines == \A n, s \in Node : n # s => LineInv(n, s)
           Counts == CountTypes /\ \A n \in Node : SentOnce(n) /\ CountedOnce(n)
<1>1. Init /\ TypeInv => Lines BY LineInit
<1>2. /\ TypeInv /\ TypeInv' /\ TurnInv /\ TurnInv' /\ Counts /\ HurtTypes
      /\ Lines /\ [Next]_vars
      => Lines'
  BY LineKept
<1>3. TypeInv /\ Counts /\ Lines => HarmConfined BY NoneMissing
<1> HIDE DEF Lines, Counts
<1>4. Spec => []Counts BY CountsHold DEF Counts
<1>5. QED BY <1>1, <1>2, <1>3, <1>4, TypesHold, TurnsHold, HurtHolds, PTL DEF Spec
=============================================================================
