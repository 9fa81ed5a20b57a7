------------------------- MODULE RoundCounterProofs -------------------------
(***************************************************************************)
(* Proofs about RoundCounter for all values of its constants.              *)
(*                                                                         *)
(* The invariants are layered: each theorem uses those proved before it.   *)
(* Type correctness comes first; the mutex invariant needs only it; the    *)
(* conservation of counts needs the mutex; the order of the publications   *)
(* needs the mutex and bounds on every round that is read or stored; the   *)
(* bound on a published count needs all of these and a count of messages.  *)
(***************************************************************************)
EXTENDS RoundCounter, FiniteSetTheorems, TLAPS

\* Changing one counter of a table of counters keeps it a table of counters.
LEMMA UpdateCounter ==
  ASSUME NEW S, NEW R, NEW f \in [S -> [R -> Nat]],
         NEW i \in S, NEW r \in R, NEW n \in Nat
  PROVE  [f EXCEPT ![i][r] = n] \in [S -> [R -> Nat]]
  OBVIOUS

\* Every variable keeps its type: in particular the sending loop never runs
\* below zero, and no thread stores a round outside the horizon.
THEOREM TypeCorrect == Spec => []TypeOK
<1>1. Init => TypeOK
  BY RoundCounterAssumption
  DEF Init, TypeOK, ClockTypes, TxTypes, DealTypes, RecordTypes,
      NoRounds, AllZero, NoneYet, NoResult, Rounds, NoRound, PCs, Held
<1>2. TypeOK /\ [Next]_vars => TypeOK'
  <2> SUFFICES ASSUME TypeOK, [Next]_vars PROVE TypeOK'
    OBVIOUS
  <2> USE RoundCounterAssumption DEF TypeOK, tx, records
  <2>1. CASE Tick
    <3>1. ClockTypes'
      BY <2>1 DEF Tick, ClockTypes, Rounds, NoRound
    <3>2. TxTypes' /\ DealTypes' /\ RecordTypes'
      BY <2>1 DEF Tick, TxTypes, DealTypes, RecordTypes
    <3>3. QED
      BY <3>1, <3>2
  <2>2. CASE PeerTick
    <3>1. ClockTypes'
      BY <2>2 DEF PeerTick, ClockTypes, Rounds, NoRound
    <3>2. TxTypes' /\ DealTypes' /\ RecordTypes'
      BY <2>2 DEF PeerTick, TxTypes, DealTypes, RecordTypes
    <3>3. QED
      BY <3>1, <3>2
  <2>3. CASE Restart
    <3>1. ClockTypes'
      BY <2>3 DEF Restart, NoRounds, AllZero, NoResult, ClockTypes, Rounds, NoRound
    <3>2. DealTypes'
      BY <2>3 DEF Restart, NoRounds, AllZero, NoResult, DealTypes, Rounds, NoRound, PCs, Held
    <3>3. RecordTypes'
      BY <2>3 DEF Restart, NoRounds, AllZero, NoResult, RecordTypes, Rounds, NoRound
    <3>4. TxTypes'
      BY <2>3 DEF Restart, NoRounds, AllZero, NoResult, TxTypes
    <3>5. QED
      BY <3>1, <3>2, <3>3, <3>4
  <2>4. CASE PeerRestart
    <3>1. ClockTypes'
      BY <2>4 DEF PeerRestart, NoRounds, AllZero, ClockTypes, Rounds, NoRound
    <3>2. TxTypes'
      BY <2>4 DEF PeerRestart, NoRounds, AllZero, TxTypes, Rounds, NoRound
    <3>3. DealTypes' /\ RecordTypes'
      BY <2>4 DEF PeerRestart, NoRounds, AllZero, DealTypes, RecordTypes
    <3>4. QED
      BY <3>1, <3>2, <3>3
  <2>5. ASSUME NEW i \in Ifaces, BeginTest(i) PROVE TypeOK'
    <3>1. TxTypes'
      <4>1. txRound' \in [Ifaces -> Rounds \cup {NoRound}]
        BY <2>5 DEF BeginTest, TxTypes, ClockTypes
      <4>2. txLeft' \in [Ifaces -> 0..Packages]
        BY <2>5 DEF BeginTest, TxTypes
      <4>3. QED
        BY <2>5, <4>1, <4>2 DEF BeginTest, TxTypes
    <3>2. ClockTypes' /\ DealTypes' /\ RecordTypes'
      BY <2>5 DEF BeginTest, ClockTypes, DealTypes, RecordTypes
    <3>3. QED
      BY <3>1, <3>2
  <2>6. ASSUME NEW i \in Ifaces, SendPackage(i) PROVE TypeOK'
    <3>1. TxTypes'
      <4>1. txLeft' \in [Ifaces -> 0..Packages]
        BY <2>6 DEF SendPackage, TxTypes
      <4>2. CASE txRound[i] \in Rounds
        <5>1. sent' = [sent EXCEPT ![i][txRound[i]] = sent[i][txRound[i]] + 1]
          BY <2>6 DEF SendPackage
        <5>2. air' = [air EXCEPT ![i][txRound[i]] = air[i][txRound[i]] + 1]
          BY <2>6 DEF SendPackage
        <5>3. sent' \in [Ifaces -> [Rounds -> Nat]]
          BY <4>2, <5>1, UpdateCounter DEF TxTypes
        <5>4. air' \in [Ifaces -> [Rounds -> Nat]]
          BY <4>2, <5>2, UpdateCounter DEF TxTypes
        <5>5. QED
          BY <2>6, <4>1, <5>3, <5>4 DEF SendPackage, TxTypes
      <4>3. CASE txRound[i] = NoRound
        <5>1. sent' = sent /\ air' = air
          BY <2>6, <4>3 DEF SendPackage, TxTypes, Rounds, NoRound
        <5>2. QED
          BY <2>6, <4>1, <5>1 DEF SendPackage, TxTypes
      <4>4. QED
        BY <4>2, <4>3 DEF TxTypes
    <3>2. ClockTypes' /\ DealTypes' /\ RecordTypes'
      BY <2>6 DEF SendPackage, ClockTypes, DealTypes, RecordTypes
    <3>3. QED
      BY <3>1, <3>2
  <2>7. ASSUME NEW i \in Ifaces, NEW l \in Rounds, Lose(i, l) PROVE TypeOK'
    <3>1. TxTypes'
      <4>1. air' = [air EXCEPT ![i][l] = air[i][l] - 1]
        BY <2>7 DEF Lose
      <4>2. air[i][l] - 1 \in Nat
        BY <2>7 DEF Lose, TxTypes
      <4>3. air' \in [Ifaces -> [Rounds -> Nat]]
        BY <4>1, <4>2, UpdateCounter DEF TxTypes
      <4>4. QED
        BY <2>7, <4>3 DEF Lose, TxTypes
    <3>2. ClockTypes' /\ DealTypes' /\ RecordTypes'
      BY <2>7 DEF Lose, ClockTypes, DealTypes, RecordTypes
    <3>3. QED
      BY <3>1, <3>2
  <2>8. ASSUME NEW i \in Ifaces, NEW l \in Rounds, NEW t \in Threads,
               Receive(i, l, t)
        PROVE TypeOK'
    <3>1. TxTypes'
      <4>1. air' = [air EXCEPT ![i][l] = air[i][l] - 1]
        BY <2>8 DEF Receive
      <4>2. air[i][l] - 1 \in Nat
        BY <2>8 DEF Receive, TxTypes
      <4>3. air' \in [Ifaces -> [Rounds -> Nat]]
        BY <4>1, <4>2, UpdateCounter DEF TxTypes
      <4>4. QED
        BY <2>8, <4>3 DEF Receive, TxTypes
    <3>2. DealTypes'
      BY <2>8 DEF Receive, DealTypes, Rounds, NoRound, PCs, Held
    <3>3. ClockTypes' /\ RecordTypes'
      BY <2>8 DEF Receive, ClockTypes, RecordTypes
    <3>4. QED
      BY <3>1, <3>2, <3>3
  <2>9. ASSUME NEW t \in Threads, ReadClock(t) PROVE TypeOK'
    <3>1. DealTypes'
      BY <2>9 DEF ReadClock, ClockTypes, DealTypes, Rounds, NoRound, PCs, Held
    <3>2. ClockTypes' /\ TxTypes' /\ RecordTypes'
      BY <2>9 DEF ReadClock, ClockTypes, TxTypes, RecordTypes
    <3>3. QED
      BY <3>1, <3>2
  <2>10. ASSUME NEW t \in Threads, Lock(t) PROVE TypeOK'
    <3>1. DealTypes'
      BY <2>10 DEF Lock, DealTypes, Rounds, NoRound, PCs, Held
    <3>2. ClockTypes' /\ TxTypes' /\ RecordTypes'
      BY <2>10 DEF Lock, ClockTypes, TxTypes, RecordTypes
    <3>3. QED
      BY <3>1, <3>2
  <2>11. ASSUME NEW t \in Threads, Reject(t) PROVE TypeOK'
    <3>1. DealTypes'
      BY <2>11 DEF Reject, Unlock, DealTypes, Rounds, NoRound, PCs, Held
    <3>2. ClockTypes' /\ TxTypes' /\ RecordTypes'
      BY <2>11 DEF Reject, Unlock, ClockTypes, TxTypes, RecordTypes
    <3>3. QED
      BY <3>1, <3>2
  <2>12. ASSUME NEW t \in Threads, CountFirst(t) PROVE TypeOK'
    <3>1. DealTypes'
      BY <2>12 DEF CountFirst, Recognise, Unlock, DealTypes, Rounds, NoRound, PCs, Held
    <3>2. RecordTypes'
      <4> DEFINE i == job[t].iface
      <4>1. i \in Ifaces /\ job[t].round \in Rounds \cup {NoRound}
        BY DEF DealTypes
      <4>2. /\ cnt' = [cnt EXCEPT ![i] = 1]
            /\ round' = [round EXCEPT ![i] = job[t].round]
            /\ counted' = [counted EXCEPT ![i] = counted[i] + 1]
        BY <2>12 DEF CountFirst, Recognise, Unlock
      <4>3. UNCHANGED <<result, reported, pubs>>
        BY <2>12 DEF CountFirst
      <4> HIDE DEF i
      <4>4. QED
        BY <4>1, <4>2, <4>3 DEF RecordTypes
    <3>3. ClockTypes' /\ TxTypes'
      BY <2>12 DEF CountFirst, Recognise, Unlock, ClockTypes, TxTypes
    <3>4. QED
      BY <3>1, <3>2, <3>3
  <2>13. ASSUME NEW t \in Threads, CountMore(t) PROVE TypeOK'
    <3>1. DealTypes'
      BY <2>13 DEF CountMore, Recognise, Unlock, DealTypes, Rounds, NoRound, PCs, Held
    <3>2. RecordTypes'
      <4> DEFINE i == job[t].iface
      <4>1. i \in Ifaces /\ job[t].round \in Rounds \cup {NoRound}
        BY DEF DealTypes
      <4>2. /\ cnt' = [cnt EXCEPT ![i] = cnt[i] + 1]
            /\ counted' = [counted EXCEPT ![i] = counted[i] + 1]
        BY <2>13 DEF CountMore, Recognise, Unlock
      <4>3. UNCHANGED <<round, result, reported, pubs>>
        BY <2>13 DEF CountMore
      <4> HIDE DEF i
      <4>4. QED
        BY <4>1, <4>2, <4>3 DEF RecordTypes
    <3>3. ClockTypes' /\ TxTypes'
      BY <2>13 DEF CountMore, Recognise, Unlock, ClockTypes, TxTypes
    <3>4. QED
      BY <3>1, <3>2, <3>3
  <2>14. ASSUME NEW t \in Threads, Publish(t) PROVE TypeOK'
    <3>1. DealTypes'
      BY <2>14 DEF Publish, DealTypes, Rounds, NoRound, PCs, Held
    <3>2. RecordTypes'
      <4> DEFINE i == job[t].iface
      <4>1. i \in Ifaces
        BY DEF DealTypes
      <4>2. round[i] \in Rounds
        BY <2>14, <4>1 DEF Publish, RecordTypes
      <4>3. /\ result' = [result EXCEPT ![i] = [round |-> round[i], rx |-> cnt[i]]]
            /\ reported' = [reported EXCEPT ![i] = reported[i] + cnt[i]]
            /\ pubs' = [pubs EXCEPT ![i][round[i]] = pubs[i][round[i]] + 1]
            /\ UNCHANGED <<cnt, round, counted>>
        BY <2>14 DEF Publish
      <4> HIDE DEF i
      <4>4. pubs' \in [Ifaces -> [Rounds -> Nat]]
        BY <4>1, <4>2, <4>3, UpdateCounter DEF RecordTypes
      <4>5. QED
        BY <4>1, <4>2, <4>3, <4>4 DEF RecordTypes
    <3>3. ClockTypes' /\ TxTypes'
      BY <2>14 DEF Publish, ClockTypes, TxTypes
    <3>4. QED
      BY <3>1, <3>2, <3>3
  <2>15. ASSUME NEW t \in Threads, StartRound(t) PROVE TypeOK'
    <3>1. DealTypes'
      BY <2>15 DEF StartRound, Recognise, Unlock, DealTypes, Rounds, NoRound, PCs, Held
    <3>2. RecordTypes'
      <4> DEFINE i == job[t].iface
      <4>1. i \in Ifaces /\ job[t].round \in Rounds \cup {NoRound}
        BY DEF DealTypes
      <4>2. /\ cnt' = [cnt EXCEPT ![i] = 1]
            /\ round' = [round EXCEPT ![i] = job[t].round]
            /\ counted' = [counted EXCEPT ![i] = counted[i] + 1]
        BY <2>15 DEF StartRound, Recognise, Unlock
      <4>3. UNCHANGED <<result, reported, pubs>>
        BY <2>15 DEF StartRound
      <4> HIDE DEF i
      <4>4. QED
        BY <4>1, <4>2, <4>3 DEF RecordTypes
    <3>3. ClockTypes' /\ TxTypes'
      BY <2>15 DEF StartRound, Recognise, Unlock, ClockTypes, TxTypes
    <3>4. QED
      BY <3>1, <3>2, <3>3
  <2>16. CASE UNCHANGED vars
    BY <2>16 DEF vars, ClockTypes, TxTypes, DealTypes, RecordTypes
  <2>17. QED
    BY <2>1, <2>2, <2>3, <2>4, <2>5, <2>6, <2>7, <2>8, <2>9, <2>10, <2>11, <2>12, <2>13, <2>14, <2>15, <2>16 DEF Next, Deal
<1>3. QED
  BY <1>1, <1>2, PTL DEF Spec

-----------------------------------------------------------------------------

\* Two threads of deal_with_mnt are never in the critical section of the same
\* interface: whoever is in it owns the mutex.
THEOREM MutexCorrect == Spec => []MutexInv
<1>1. Init => MutexInv
  BY DEF Init, MutexInv, Held
<1>2. TypeOK /\ MutexInv /\ [Next]_vars => MutexInv'
  <2> SUFFICES ASSUME TypeOK, MutexInv, [Next]_vars PROVE MutexInv'
    OBVIOUS
  <2> USE RoundCounterAssumption DEF MutexInv, TypeOK, tx, records
  <2>1. CASE Tick
    BY <2>1 DEF Tick, DealTypes, Held
  <2>2. CASE PeerTick
    BY <2>2 DEF PeerTick, DealTypes, Held
  <2>3. CASE Restart
    BY <2>3 DEF Restart, DealTypes, Held
  <2>4. CASE PeerRestart
    BY <2>4 DEF PeerRestart, DealTypes, Held
  <2>5. ASSUME NEW i \in Ifaces, BeginTest(i) PROVE MutexInv'
    BY <2>5 DEF BeginTest, DealTypes, Held
  <2>6. ASSUME NEW i \in Ifaces, SendPackage(i) PROVE MutexInv'
    BY <2>6 DEF SendPackage, DealTypes, Held
  <2>7. ASSUME NEW i \in Ifaces, NEW l \in Rounds, Lose(i, l) PROVE MutexInv'
    BY <2>7 DEF Lose, DealTypes, Held
  <2>8. ASSUME NEW i \in Ifaces, NEW l \in Rounds, NEW t \in Threads,
               Receive(i, l, t)
        PROVE MutexInv'
    BY <2>8 DEF Receive, DealTypes, Held
  <2>9. ASSUME NEW t \in Threads, ReadClock(t) PROVE MutexInv'
    BY <2>9 DEF ReadClock, DealTypes, Held
  <2>10. ASSUME NEW t \in Threads, Lock(t) PROVE MutexInv'
    BY <2>10 DEF Lock, DealTypes, Held
  <2>11. ASSUME NEW t \in Threads, Reject(t) PROVE MutexInv'
    BY <2>11 DEF Reject, Unlock, DealTypes, Held
  <2>12. ASSUME NEW t \in Threads, CountFirst(t) PROVE MutexInv'
    BY <2>12 DEF CountFirst, Unlock, Recognise, DealTypes, Held
  <2>13. ASSUME NEW t \in Threads, CountMore(t) PROVE MutexInv'
    BY <2>13 DEF CountMore, Unlock, Recognise, DealTypes, Held
  <2>14. ASSUME NEW t \in Threads, Publish(t) PROVE MutexInv'
    BY <2>14 DEF Publish, DealTypes, Held
  <2>15. ASSUME NEW t \in Threads, StartRound(t) PROVE MutexInv'
    BY <2>15 DEF StartRound, Unlock, Recognise, DealTypes, Held
  <2>16. CASE UNCHANGED vars
    BY <2>16 DEF vars, DealTypes, Held
  <2>17. QED
    BY <2>1, <2>2, <2>3, <2>4, <2>5, <2>6, <2>7, <2>8, <2>9, <2>10, <2>11, <2>12, <2>13, <2>14, <2>15, <2>16
    DEF Next, Deal
<1>3. QED
  BY <1>1, <1>2, TypeCorrect, PTL DEF Spec

\* Nobody reads or stores a round the clock has not reached.
THEOREM ClockCorrect == Spec => []ClockInv
<1>1. Init => ClockInv
  BY DEF Init, ClockInv, NoRounds, NoRound, Held
<1>2. TypeOK /\ ClockInv /\ [Next]_vars => ClockInv'
  <2> SUFFICES ASSUME TypeOK, ClockInv, [Next]_vars PROVE ClockInv'
    OBVIOUS
  <2> USE RoundCounterAssumption DEF ClockInv, TypeOK, tx, records
  <2>1. CASE Tick
    <3>1. ASSUME NEW i \in Ifaces PROVE round'[i] <= now' /\ txRound'[i] <= peer'
      <4>1. round[i] \in Int /\ round[i] <= now /\ now \in Int
        BY DEF ClockTypes, RecordTypes, Rounds, NoRound
      <4>2. now' = now + 1 /\ round' = round /\ txRound' = txRound /\ peer' = peer
        BY <2>1 DEF Tick
      <4>3. QED
        BY <4>1, <4>2
    <3>2. ASSUME NEW t \in Threads, pc'[t] \in {"ready"} \cup Held
          PROVE  job'[t].round \in Rounds /\ job'[t].round <= now'
      BY <2>1, <3>2 DEF Tick, ClockTypes, Rounds
    <3>3. QED
      BY <3>1, <3>2
  <2>2. CASE PeerTick
    <3>1. ASSUME NEW i \in Ifaces PROVE round'[i] <= now' /\ txRound'[i] <= peer'
      <4>1. txRound[i] \in Int /\ txRound[i] <= peer /\ peer \in Int
        BY DEF ClockTypes, TxTypes, Rounds, NoRound
      <4>2. peer' = peer + 1 /\ txRound' = txRound /\ round' = round /\ now' = now
        BY <2>2 DEF PeerTick
      <4>3. QED
        BY <4>1, <4>2
    <3>2. ASSUME NEW t \in Threads, pc'[t] \in {"ready"} \cup Held
          PROVE  job'[t].round \in Rounds /\ job'[t].round <= now'
      BY <2>2, <3>2 DEF PeerTick
    <3>3. QED
      BY <3>1, <3>2
  <2>3. CASE Restart
    BY <2>3 DEF Restart, ClockTypes, TxTypes, DealTypes, RecordTypes, Rounds, NoRound, Held, NoRounds
  <2>4. CASE PeerRestart
    BY <2>4 DEF PeerRestart, ClockTypes, TxTypes, DealTypes, RecordTypes, Rounds, NoRound, Held, NoRounds
  <2>5. ASSUME NEW i \in Ifaces, BeginTest(i) PROVE ClockInv'
    BY <2>5 DEF BeginTest, ClockTypes, TxTypes, DealTypes, RecordTypes, Rounds, NoRound, Held, NoRounds
  <2>6. ASSUME NEW i \in Ifaces, SendPackage(i) PROVE ClockInv'
    BY <2>6 DEF SendPackage, ClockTypes, TxTypes, DealTypes, RecordTypes, Rounds, NoRound, Held, NoRounds
  <2>7. ASSUME NEW i \in Ifaces, NEW l \in Rounds, Lose(i, l) PROVE ClockInv'
    BY <2>7 DEF Lose, ClockTypes, TxTypes, DealTypes, RecordTypes, Rounds, NoRound, Held, NoRounds
  <2>8. ASSUME NEW i \in Ifaces, NEW l \in Rounds, NEW t \in Threads,
               Receive(i, l, t)
        PROVE ClockInv'
    BY <2>8 DEF Receive, ClockTypes, TxTypes, DealTypes, RecordTypes, Rounds, NoRound, Held, NoRounds
  <2>9. ASSUME NEW t \in Threads, ReadClock(t) PROVE ClockInv'
    <3>1. ASSUME NEW u \in Threads, pc'[u] \in {"ready"} \cup Held
          PROVE  job'[u].round \in Rounds /\ job'[u].round <= now'
      <4>1. CASE u = t
        BY <2>9, <4>1 DEF ReadClock, ClockTypes, DealTypes, Rounds
      <4>2. CASE u # t
        BY <2>9, <3>1, <4>2 DEF ReadClock, DealTypes
      <4>3. QED
        BY <4>1, <4>2
    <3>2. QED
      BY <2>9, <3>1 DEF ReadClock
  <2>10. ASSUME NEW t \in Threads, Lock(t) PROVE ClockInv'
    BY <2>10 DEF Lock, ClockTypes, TxTypes, DealTypes, RecordTypes, Rounds, NoRound, Held, NoRounds
  <2>11. ASSUME NEW t \in Threads, Reject(t) PROVE ClockInv'
    BY <2>11 DEF Reject, Unlock, ClockTypes, TxTypes, DealTypes, RecordTypes, Rounds, NoRound, Held, NoRounds
  <2>12. ASSUME NEW t \in Threads, CountFirst(t) PROVE ClockInv'
    BY <2>12 DEF CountFirst, Unlock, Recognise, ClockTypes, TxTypes, DealTypes, RecordTypes, Rounds, NoRound, Held, NoRounds
  <2>13. ASSUME NEW t \in Threads, CountMore(t) PROVE ClockInv'
    BY <2>13 DEF CountMore, Unlock, Recognise, ClockTypes, TxTypes, DealTypes, RecordTypes, Rounds, NoRound, Held, NoRounds
  <2>14. ASSUME NEW t \in Threads, Publish(t) PROVE ClockInv'
    BY <2>14 DEF Publish, ClockTypes, TxTypes, DealTypes, RecordTypes, Rounds, NoRound, Held, NoRounds
  <2>15. ASSUME NEW t \in Threads, StartRound(t) PROVE ClockInv'
    BY <2>15 DEF StartRound, Unlock, Recognise, ClockTypes, TxTypes, DealTypes, RecordTypes, Rounds, NoRound, Held, NoRounds
  <2>16. CASE UNCHANGED vars
    BY <2>16 DEF vars, ClockTypes, TxTypes, DealTypes, RecordTypes, Rounds, NoRound, Held, NoRounds
  <2>17. QED
    BY <2>1, <2>2, <2>3, <2>4, <2>5, <2>6, <2>7, <2>8, <2>9, <2>10, <2>11, <2>12, <2>13, <2>14, <2>15, <2>16
    DEF Next, Deal
<1>3. QED
  BY <1>1, <1>2, TypeCorrect, PTL DEF Spec

THEOREM FreshCorrect == Spec => []FreshInv
<1>1. Init => FreshInv
  BY DEF Init, FreshInv, NoRounds, AllZero
<1>2. TypeOK /\ ClockInv /\ FreshInv /\ [Next]_vars => FreshInv'
  <2> SUFFICES ASSUME TypeOK, ClockInv, FreshInv, [Next]_vars PROVE FreshInv'
    OBVIOUS
  <2> USE DEF FreshInv, TypeOK, tx, records
  <2>1. CASE Tick
    BY <2>1 DEF Tick
  <2>2. CASE PeerTick
    BY <2>2 DEF PeerTick
  <2>3. CASE Restart
    BY <2>3 DEF Restart, NoRounds, AllZero
  <2>4. CASE PeerRestart
    BY <2>4 DEF PeerRestart
  <2>5. ASSUME NEW i \in Ifaces, BeginTest(i) PROVE FreshInv'
    BY <2>5 DEF BeginTest
  <2>6. ASSUME NEW i \in Ifaces, SendPackage(i) PROVE FreshInv'
    BY <2>6 DEF SendPackage
  <2>7. ASSUME NEW i \in Ifaces, NEW l \in Rounds, Lose(i, l) PROVE FreshInv'
    BY <2>7 DEF Lose
  <2>8. ASSUME NEW i \in Ifaces, NEW l \in Rounds, NEW t \in Threads,
               Receive(i, l, t)
        PROVE FreshInv'
    BY <2>8 DEF Receive
  <2>9. ASSUME NEW t \in Threads, ReadClock(t) PROVE FreshInv'
    BY <2>9 DEF ReadClock
  <2>10. ASSUME NEW t \in Threads, Lock(t) PROVE FreshInv'
    BY <2>10 DEF Lock
  <2>11. ASSUME NEW t \in Threads, Reject(t) PROVE FreshInv'
    BY <2>11 DEF Reject, Unlock
  <2>12. ASSUME NEW t \in Threads, CountFirst(t) PROVE FreshInv'
    <3>1. job[t].round # NoRound
      BY <2>12 DEF CountFirst, ClockInv, Held, Rounds, NoRound
    <3>2. QED
      BY <2>12, <3>1 DEF CountFirst, Unlock, Recognise, RecordTypes
  <2>13. ASSUME NEW t \in Threads, CountMore(t) PROVE FreshInv'
    BY <2>13 DEF CountMore, Unlock, Recognise, RecordTypes
  <2>14. ASSUME NEW t \in Threads, Publish(t) PROVE FreshInv'
    BY <2>14 DEF Publish
  <2>15. ASSUME NEW t \in Threads, StartRound(t) PROVE FreshInv'
    <3>1. job[t].round # NoRound
      BY <2>15 DEF StartRound, ClockInv, Held, Rounds, NoRound
    <3>2. QED
      BY <2>15, <3>1 DEF StartRound, Unlock, Recognise, RecordTypes
  <2>16. CASE UNCHANGED vars
    BY <2>16 DEF vars
  <2>17. QED
    BY <2>1, <2>2, <2>3, <2>4, <2>5, <2>6, <2>7, <2>8, <2>9, <2>10, <2>11, <2>12, <2>13, <2>14, <2>15, <2>16
    DEF Next, Deal
<1>3. QED
  BY <1>1, <1>2, TypeCorrect, ClockCorrect, PTL DEF Spec

\* While one thread is in the critical section of an interface, no other has
\* published there.
LEMMA OnlyPublisher ==
  ASSUME TypeOK, MutexInv, NEW t \in Threads, pc[t] \in Held,
         NEW u \in Threads, pc[u] = "published", job[u].iface = job[t].iface
  PROVE  u = t
  BY DEF MutexInv, Held

\* No recognised message is lost or counted twice, for any number of threads.
THEOREM CountsKept == Spec => []NoCountLost
<1>1. Init => NoCountLost
  BY DEF Init, NoCountLost, OpenCount, Publishing, AllZero
<1>2. TypeOK /\ MutexInv /\ FreshInv /\ NoCountLost /\ [Next]_vars => NoCountLost'
  <2> SUFFICES ASSUME TypeOK, MutexInv, FreshInv, NoCountLost, [Next]_vars
               PROVE  NoCountLost'
    OBVIOUS
  <2> USE DEF TypeOK, tx, records
  <2>1. CASE Tick
    BY <2>1 DEF Tick, NoCountLost, OpenCount, Publishing
  <2>2. CASE PeerTick
    BY <2>2 DEF PeerTick, NoCountLost, OpenCount, Publishing
  <2>3. CASE Restart
    BY <2>3 DEF Restart, NoRounds, AllZero, NoCountLost, OpenCount, Publishing
  <2>4. CASE PeerRestart
    BY <2>4 DEF PeerRestart, NoCountLost, OpenCount, Publishing
  <2>5. ASSUME NEW i \in Ifaces, BeginTest(i) PROVE NoCountLost'
    BY <2>5 DEF BeginTest, NoCountLost, OpenCount, Publishing
  <2>6. ASSUME NEW i \in Ifaces, SendPackage(i) PROVE NoCountLost'
    BY <2>6 DEF SendPackage, NoCountLost, OpenCount, Publishing
  <2>7. ASSUME NEW i \in Ifaces, NEW l \in Rounds, Lose(i, l) PROVE NoCountLost'
    BY <2>7 DEF Lose, NoCountLost, OpenCount, Publishing
  <2>8. ASSUME NEW i \in Ifaces, NEW l \in Rounds, NEW t \in Threads,
               Receive(i, l, t)
        PROVE NoCountLost'
    <3>1. ASSUME NEW j \in Ifaces PROVE Publishing(j)' = Publishing(j)
      BY <2>8 DEF Receive, Publishing, DealTypes
    <3>2. QED
      BY <2>8, <3>1 DEF Receive, NoCountLost, OpenCount
  <2>9. ASSUME NEW t \in Threads, ReadClock(t) PROVE NoCountLost'
    <3>1. ASSUME NEW j \in Ifaces PROVE Publishing(j)' = Publishing(j)
      BY <2>9 DEF ReadClock, Publishing, DealTypes
    <3>2. QED
      BY <2>9, <3>1 DEF ReadClock, NoCountLost, OpenCount
  <2>10. ASSUME NEW t \in Threads, Lock(t) PROVE NoCountLost'
    <3>1. ASSUME NEW j \in Ifaces PROVE Publishing(j)' = Publishing(j)
      BY <2>10 DEF Lock, Publishing, DealTypes
    <3>2. QED
      BY <2>10, <3>1 DEF Lock, NoCountLost, OpenCount
  <2>11. ASSUME NEW t \in Threads, Reject(t) PROVE NoCountLost'
    <3>1. ASSUME NEW j \in Ifaces PROVE Publishing(j)' = Publishing(j)
      BY <2>11 DEF Reject, Unlock, Publishing, DealTypes
    <3>2. QED
      BY <2>11, <3>1 DEF Reject, NoCountLost, OpenCount
  <2>12. ASSUME NEW t \in Threads, CountFirst(t) PROVE NoCountLost'
    <3>1. PICK i \in Ifaces : i = job[t].iface
      BY DEF DealTypes
    <3>2. ~Publishing(i)
      BY <2>12, <3>1, OnlyPublisher DEF CountFirst, Publishing, Held
    <3>3. ~Publishing(i)'
      BY <2>12, <3>1, OnlyPublisher DEF CountFirst, Unlock, Recognise, Publishing, DealTypes, Held
    <3>4. ASSUME NEW j \in Ifaces, j # i PROVE Publishing(j)' = Publishing(j)
      BY <2>12, <3>1, <3>4 DEF CountFirst, Unlock, Recognise, Publishing, DealTypes
    <3>5. /\ cnt'[i] = 1 /\ cnt[i] = 0
          /\ counted'[i] = counted[i] + 1
          /\ reported'[i] = reported[i]
      BY <2>12, <3>1 DEF CountFirst, Unlock, Recognise, FreshInv, RecordTypes
    <3>6. \A j \in Ifaces : j # i =>
            cnt'[j] = cnt[j] /\ counted'[j] = counted[j] /\ reported'[j] = reported[j]
      BY <2>12, <3>1 DEF CountFirst, Unlock, Recognise, RecordTypes
    <3>7. OpenCount(i) = 0 /\ OpenCount(i)' = 1
      BY <3>2, <3>3, <3>5 DEF OpenCount
    <3>8. ASSUME NEW j \in Ifaces, j # i PROVE OpenCount(j)' = OpenCount(j)
      BY <3>4, <3>6, <3>8 DEF OpenCount
    <3>9. reported[i] \in Nat /\ cnt[i] \in Nat /\ counted[i] \in Nat
      BY <3>1 DEF RecordTypes
    <3>10. QED
      BY <3>1, <3>5, <3>6, <3>7, <3>8, <3>9 DEF NoCountLost
  <2>13. ASSUME NEW t \in Threads, CountMore(t) PROVE NoCountLost'
    <3>1. PICK i \in Ifaces : i = job[t].iface
      BY DEF DealTypes
    <3>2. ~Publishing(i)
      BY <2>13, <3>1, OnlyPublisher DEF CountMore, Publishing, Held
    <3>3. ~Publishing(i)'
      BY <2>13, <3>1, OnlyPublisher DEF CountMore, Unlock, Recognise, Publishing, DealTypes, Held
    <3>4. ASSUME NEW j \in Ifaces, j # i PROVE Publishing(j)' = Publishing(j)
      BY <2>13, <3>1, <3>4 DEF CountMore, Unlock, Recognise, Publishing, DealTypes
    <3>5. /\ cnt'[i] = cnt[i] + 1
          /\ counted'[i] = counted[i] + 1
          /\ reported'[i] = reported[i]
      BY <2>13, <3>1 DEF CountMore, Unlock, Recognise, RecordTypes
    <3>6. \A j \in Ifaces : j # i =>
            cnt'[j] = cnt[j] /\ counted'[j] = counted[j] /\ reported'[j] = reported[j]
      BY <2>13, <3>1 DEF CountMore, Unlock, Recognise, RecordTypes
    <3>7. OpenCount(i) = cnt[i] /\ OpenCount(i)' = cnt[i] + 1
      BY <3>2, <3>3, <3>5 DEF OpenCount
    <3>8. ASSUME NEW j \in Ifaces, j # i PROVE OpenCount(j)' = OpenCount(j)
      BY <3>4, <3>6, <3>8 DEF OpenCount
    <3>9. reported[i] \in Nat /\ cnt[i] \in Nat /\ counted[i] \in Nat
      BY <3>1 DEF RecordTypes
    <3>10. QED
      BY <3>1, <3>5, <3>6, <3>7, <3>8, <3>9 DEF NoCountLost
  <2>14. ASSUME NEW t \in Threads, Publish(t) PROVE NoCountLost'
    <3>1. PICK i \in Ifaces : i = job[t].iface
      BY DEF DealTypes
    <3>2. ~Publishing(i)
      BY <2>14, <3>1, OnlyPublisher DEF Publish, Publishing, Held
    <3>3. Publishing(i)'
      BY <2>14, <3>1 DEF Publish, Publishing, DealTypes
    <3>4. ASSUME NEW j \in Ifaces, j # i PROVE Publishing(j)' = Publishing(j)
      BY <2>14, <3>1, <3>4 DEF Publish, Publishing, DealTypes
    <3>5. /\ cnt'[i] = cnt[i]
          /\ counted'[i] = counted[i]
          /\ reported'[i] = reported[i] + cnt[i]
      BY <2>14, <3>1 DEF Publish, RecordTypes
    <3>6. \A j \in Ifaces : j # i =>
            cnt'[j] = cnt[j] /\ counted'[j] = counted[j] /\ reported'[j] = reported[j]
      BY <2>14, <3>1 DEF Publish, RecordTypes
    <3>7. OpenCount(i) = cnt[i] /\ OpenCount(i)' = 0
      BY <3>2, <3>3, <3>5 DEF OpenCount
    <3>8. ASSUME NEW j \in Ifaces, j # i PROVE OpenCount(j)' = OpenCount(j)
      BY <3>4, <3>6, <3>8 DEF OpenCount
    <3>9. reported[i] \in Nat /\ cnt[i] \in Nat /\ counted[i] \in Nat
      BY <3>1 DEF RecordTypes
    <3>10. QED
      BY <3>1, <3>5, <3>6, <3>7, <3>8, <3>9 DEF NoCountLost
  <2>15. ASSUME NEW t \in Threads, StartRound(t) PROVE NoCountLost'
    <3>1. PICK i \in Ifaces : i = job[t].iface
      BY DEF DealTypes
    <3>2. Publishing(i)
      BY <2>15, <3>1, OnlyPublisher DEF StartRound, Publishing, Held
    <3>3. ~Publishing(i)'
      BY <2>15, <3>1, OnlyPublisher DEF StartRound, Unlock, Recognise, Publishing, DealTypes, Held
    <3>4. ASSUME NEW j \in Ifaces, j # i PROVE Publishing(j)' = Publishing(j)
      BY <2>15, <3>1, <3>4 DEF StartRound, Unlock, Recognise, Publishing, DealTypes
    <3>5. /\ cnt'[i] = 1
          /\ counted'[i] = counted[i] + 1
          /\ reported'[i] = reported[i]
      BY <2>15, <3>1 DEF StartRound, Unlock, Recognise, RecordTypes
    <3>6. \A j \in Ifaces : j # i =>
            cnt'[j] = cnt[j] /\ counted'[j] = counted[j] /\ reported'[j] = reported[j]
      BY <2>15, <3>1 DEF StartRound, Unlock, Recognise, RecordTypes
    <3>7. OpenCount(i) = 0 /\ OpenCount(i)' = 1
      BY <3>2, <3>3, <3>5 DEF OpenCount
    <3>8. ASSUME NEW j \in Ifaces, j # i PROVE OpenCount(j)' = OpenCount(j)
      BY <3>4, <3>6, <3>8 DEF OpenCount
    <3>9. reported[i] \in Nat /\ cnt[i] \in Nat /\ counted[i] \in Nat
      BY <3>1 DEF RecordTypes
    <3>10. QED
      BY <3>1, <3>5, <3>6, <3>7, <3>8, <3>9 DEF NoCountLost
  <2>16. CASE UNCHANGED vars
    BY <2>16 DEF vars, NoCountLost, OpenCount, Publishing
  <2>17. QED
    BY <2>1, <2>2, <2>3, <2>4, <2>5, <2>6, <2>7, <2>8, <2>9, <2>10, <2>11, <2>12, <2>13, <2>14, <2>15, <2>16
    DEF Next, Deal
<1>3. QED
  BY <1>1, <1>2, TypeCorrect, MutexCorrect, FreshCorrect, PTL DEF Spec

\* What one interface has sent respects the package limit and fits its round.
SendingOf(i) ==
    /\ txLeft[i] > 0 => txRound[i] # NoRound
    /\ txRound[i] # NoRound => sent[i][txRound[i]] + txLeft[i] <= Packages
    /\ \A r \in Rounds : sent[i][r] > 0 =>
          r <= peer /\ (txRound[i] # NoRound => r <= txRound[i])
    /\ \A r \in Rounds : sent[i][r] <= Packages

\* The test thread never sends more messages with a round's label than
\* PAKCAGES_NUM_ONE_TIME, wherever its process is restarted.
THEOREM PackagesBounded == Spec => [](SendingInv /\ AtMostPackagesSent)
<1> DEFINE SInv == \A i \in Ifaces : SendingOf(i)
<1>1. SInv <=> SendingInv /\ AtMostPackagesSent
  BY DEF SendingOf, SendingInv, AtMostPackagesSent
<1>2. Init => SInv
  BY RoundCounterAssumption
  DEF Init, SendingOf, NoRounds, AllZero, NoneYet, Rounds, NoRound
<1>3. TypeOK /\ ClockInv /\ SInv /\ [Next]_vars => SInv'
  <2> SUFFICES ASSUME TypeOK, ClockInv, SInv, [Next]_vars, NEW j \in Ifaces
               PROVE  SendingOf(j)'
    OBVIOUS
  <2>1. /\ SendingOf(j) /\ txRound[j] <= peer /\ peer \in Rounds
        /\ txRound[j] \in Rounds \cup {NoRound} /\ txLeft[j] \in 0..Packages
        /\ sent[j] \in [Rounds -> Nat]
    BY DEF ClockInv, TypeOK, ClockTypes, TxTypes
  <2>2. CASE UNCHANGED <<tx, peer>>
    BY <2>1, <2>2 DEF tx, SendingOf
  <2>3. CASE PeerTick
    BY <2>1, <2>3 DEF PeerTick, tx, SendingOf, Rounds
  <2>4. CASE PeerRestart
    BY <2>1, <2>4, RoundCounterAssumption
    DEF PeerRestart, SendingOf, NoRounds, AllZero, NoRound
  <2>5. ASSUME NEW i \in Ifaces, BeginTest(i) PROVE SendingOf(j)'
    <3>1. CASE i # j
      <4>1. txRound'[j] = txRound[j] /\ txLeft'[j] = txLeft[j] /\ sent' = sent /\ peer' = peer
        BY <2>5, <3>1 DEF BeginTest, TypeOK, TxTypes
      <4>2. QED
        BY <2>1, <4>1 DEF SendingOf
    <3>2. CASE i = j
      <4>1. /\ txRound'[j] = peer /\ sent' = sent /\ peer' = peer
            /\ txLeft'[j] = IF txRound[j] = NoRound THEN 0 ELSE Packages
            /\ txRound[j] < peer
        BY <2>5, <3>2 DEF BeginTest, TypeOK, TxTypes
      <4>2. txRound[j] # NoRound => sent[j][peer] = 0
        <5>1. peer \in Int /\ txRound[j] \in Int
          BY <2>1 DEF Rounds, NoRound
        <5>2. sent[j][peer] \in Nat
          BY <2>1
        <5>3. txRound[j] # NoRound /\ sent[j][peer] > 0 => peer <= txRound[j]
          BY <2>1 DEF SendingOf
        <5>4. QED
          BY <4>1, <5>1, <5>2, <5>3
      <4>3. sent[j][peer] + txLeft'[j] <= Packages
        BY <2>1, <4>1, <4>2, RoundCounterAssumption DEF SendingOf
      <4>4. QED
        BY <2>1, <4>1, <4>3 DEF SendingOf, Rounds, NoRound
    <3>3. QED
      BY <3>1, <3>2
  <2>6. ASSUME NEW i \in Ifaces, SendPackage(i) PROVE SendingOf(j)'
    <3>1. txRound' = txRound /\ peer' = peer
      BY <2>6 DEF SendPackage
    <3>2. CASE i # j
      <4>1. txLeft'[j] = txLeft[j] /\ sent'[j] = sent[j]
        BY <2>6, <3>2 DEF SendPackage, TypeOK, TxTypes
      <4>2. QED
        BY <2>1, <3>1, <4>1 DEF SendingOf
    <3>3. CASE i = j
      <4>1. txLeft[j] > 0 /\ txLeft'[j] = txLeft[j] - 1
        BY <2>6, <3>3 DEF SendPackage, TypeOK, TxTypes
      <4>2. txRound[j] \in Rounds
        BY <2>1, <4>1 DEF SendingOf
      <4>3. sent'[j] = [sent[j] EXCEPT ![txRound[j]] = sent[j][txRound[j]] + 1]
        BY <2>6, <3>3 DEF SendPackage, TypeOK, TxTypes
      <4>4. /\ sent'[j][txRound[j]] = sent[j][txRound[j]] + 1
            /\ \A r \in Rounds : r # txRound[j] => sent'[j][r] = sent[j][r]
        BY <2>1, <4>2, <4>3
      <4>5. sent[j][txRound[j]] \in Nat /\ txLeft[j] \in Int /\ Packages \in Nat
        BY <2>1, <4>2, RoundCounterAssumption
      <4>6. sent'[j][txRound[j]] + txLeft'[j] <= Packages
        BY <2>1, <4>1, <4>2, <4>4, <4>5 DEF SendingOf, Rounds, NoRound
      <4>7. ASSUME NEW r \in Rounds, sent'[j][r] > 0 PROVE r <= peer /\ r <= txRound[j]
        BY <2>1, <4>2, <4>4, <4>7 DEF SendingOf, Rounds, NoRound
      <4>8. ASSUME NEW r \in Rounds PROVE sent'[j][r] <= Packages
        BY <2>1, <4>1, <4>4, <4>5, <4>6 DEF SendingOf
      <4>9. QED
        BY <3>1, <4>1, <4>2, <4>6, <4>7, <4>8 DEF SendingOf, Rounds, NoRound
    <3>4. QED
      BY <3>2, <3>3
  <2>7. QED
    BY <2>2, <2>3, <2>4, <2>5, <2>6
    DEF Next, vars, tx, Tick, Restart, Lose, Receive, Deal, ReadClock, Lock, Reject,
        CountFirst, CountMore, Publish, StartRound
<1> HIDE DEF SInv
<1>4. QED
  BY <1>1, <1>2, <1>3, TypeCorrect, ClockCorrect, PTL DEF Spec

\* The open round, the rounds threads have read and the published rounds keep
\* their order.
THEOREM PublicationCorrect == Spec => []PublicationInv
<1> USE DEF PublicationInv
<1>1. Init => PublicationInv
  BY DEF Init, PublishedPast, OpenAfterPublished, ReadAfterPublished, PublisherIsLater,
         NoneYet, NoRounds, Held
<1>2. TypeOK /\ MutexInv /\ ClockInv /\ PublicationInv /\ [Next]_vars => PublicationInv'
  <2> SUFFICES ASSUME TypeOK, MutexInv, ClockInv, PublicationInv, [Next]_vars
               PROVE  PublicationInv'
    OBVIOUS
  <2>1. CASE UNCHANGED <<now, pc, job, round, pubs>>
    BY <2>1 DEF PublishedPast, OpenAfterPublished, ReadAfterPublished, PublisherIsLater,
                Publishing, RoundChanged
  <2>2. CASE Tick
    <3>1. PublishedPast'
      BY <2>2 DEF Tick, records, PublishedPast, TypeOK, ClockTypes, Rounds
    <3>2. OpenAfterPublished' /\ ReadAfterPublished' /\ PublisherIsLater'
      BY <2>2 DEF Tick, records, OpenAfterPublished, ReadAfterPublished, PublisherIsLater,
                  Publishing, RoundChanged
    <3>3. QED
      BY <3>1, <3>2
  <2>3. CASE Restart
    BY <2>3 DEF Restart, NoRounds, PublishedPast, OpenAfterPublished, ReadAfterPublished,
                PublisherIsLater, Held
  <2>4. ASSUME NEW i \in Ifaces, NEW l \in Rounds, NEW t \in Threads,
               Receive(i, l, t)
        PROVE  PublicationInv'
    <3>1. UNCHANGED <<now, round, pubs>>
      BY <2>4 DEF Receive, records
    <3>2. ASSUME NEW j \in Ifaces PROVE Publishing(j)' = Publishing(j)
      BY <2>4 DEF Receive, Publishing, TypeOK, DealTypes
    <3>3. PublishedPast' /\ OpenAfterPublished'
      BY <3>1, <3>2 DEF PublishedPast, OpenAfterPublished
    <3>4. ASSUME NEW u \in Threads, u # t PROVE pc'[u] = pc[u] /\ job'[u] = job[u]
      BY <2>4, <3>4 DEF Receive, TypeOK, DealTypes
    <3>5. ASSUME NEW r \in Rounds, pc'[t] \in {"ready"} \cup Held,
                 round'[job'[t].iface] = NoRound, pubs'[job'[t].iface][r] > 0
          PROVE  r < job'[t].round
      BY <2>4, <3>1, <3>5 DEF Receive, ReadAfterPublished, PublishedPast, TypeOK, DealTypes, Held
    <3>6. pc'[t] # "published"
      BY <2>4 DEF Receive, TypeOK, DealTypes
    <3>7. ReadAfterPublished'
      BY <3>1, <3>4, <3>5 DEF ReadAfterPublished
    <3>8. PublisherIsLater'
      BY <3>1, <3>4, <3>6 DEF PublisherIsLater, RoundChanged
    <3>9. QED
      BY <3>3, <3>7, <3>8
  <2>5. ASSUME NEW t \in Threads, ReadClock(t)
        PROVE  PublicationInv'
    <3>1. UNCHANGED <<now, round, pubs>>
      BY <2>5 DEF ReadClock, records
    <3>2. ASSUME NEW j \in Ifaces PROVE Publishing(j)' = Publishing(j)
      BY <2>5 DEF ReadClock, Publishing, TypeOK, DealTypes
    <3>3. PublishedPast' /\ OpenAfterPublished'
      BY <3>1, <3>2 DEF PublishedPast, OpenAfterPublished
    <3>4. ASSUME NEW u \in Threads, u # t PROVE pc'[u] = pc[u] /\ job'[u] = job[u]
      BY <2>5, <3>4 DEF ReadClock, TypeOK, DealTypes
    <3>5. ASSUME NEW r \in Rounds, pc'[t] \in {"ready"} \cup Held,
                 round'[job'[t].iface] = NoRound, pubs'[job'[t].iface][r] > 0
          PROVE  r < job'[t].round
      BY <2>5, <3>1, <3>5 DEF ReadClock, ReadAfterPublished, PublishedPast, TypeOK, DealTypes, Held
    <3>6. pc'[t] # "published"
      BY <2>5 DEF ReadClock, TypeOK, DealTypes
    <3>7. ReadAfterPublished'
      BY <3>1, <3>4, <3>5 DEF ReadAfterPublished
    <3>8. PublisherIsLater'
      BY <3>1, <3>4, <3>6 DEF PublisherIsLater, RoundChanged
    <3>9. QED
      BY <3>3, <3>7, <3>8
  <2>6. ASSUME NEW t \in Threads, Lock(t)
        PROVE  PublicationInv'
    <3>1. UNCHANGED <<now, round, pubs>>
      BY <2>6 DEF Lock, records
    <3>2. ASSUME NEW j \in Ifaces PROVE Publishing(j)' = Publishing(j)
      BY <2>6 DEF Lock, Publishing, TypeOK, DealTypes
    <3>3. PublishedPast' /\ OpenAfterPublished'
      BY <3>1, <3>2 DEF PublishedPast, OpenAfterPublished
    <3>4. ASSUME NEW u \in Threads, u # t PROVE pc'[u] = pc[u] /\ job'[u] = job[u]
      BY <2>6, <3>4 DEF Lock, TypeOK, DealTypes
    <3>5. ASSUME NEW r \in Rounds, pc'[t] \in {"ready"} \cup Held,
                 round'[job'[t].iface] = NoRound, pubs'[job'[t].iface][r] > 0
          PROVE  r < job'[t].round
      BY <2>6, <3>1, <3>5 DEF Lock, ReadAfterPublished, PublishedPast, TypeOK, DealTypes, Held
    <3>6. pc'[t] # "published"
      BY <2>6 DEF Lock, TypeOK, DealTypes
    <3>7. ReadAfterPublished'
      BY <3>1, <3>4, <3>5 DEF ReadAfterPublished
    <3>8. PublisherIsLater'
      BY <3>1, <3>4, <3>6 DEF PublisherIsLater, RoundChanged
    <3>9. QED
      BY <3>3, <3>7, <3>8
  <2>7. ASSUME NEW t \in Threads, Reject(t)
        PROVE  PublicationInv'
    <3>1. UNCHANGED <<now, round, pubs>>
      BY <2>7 DEF Reject, records
    <3>2. ASSUME NEW j \in Ifaces PROVE Publishing(j)' = Publishing(j)
      BY <2>7 DEF Reject, Unlock, Publishing, TypeOK, DealTypes
    <3>3. PublishedPast' /\ OpenAfterPublished'
      BY <3>1, <3>2 DEF PublishedPast, OpenAfterPublished
    <3>4. ASSUME NEW u \in Threads, u # t PROVE pc'[u] = pc[u] /\ job'[u] = job[u]
      BY <2>7, <3>4 DEF Reject, Unlock, TypeOK, DealTypes
    <3>5. ASSUME NEW r \in Rounds, pc'[t] \in {"ready"} \cup Held,
                 round'[job'[t].iface] = NoRound, pubs'[job'[t].iface][r] > 0
          PROVE  r < job'[t].round
      BY <2>7, <3>1, <3>5 DEF Reject, Unlock, ReadAfterPublished, PublishedPast, TypeOK, DealTypes, Held
    <3>6. pc'[t] # "published"
      BY <2>7 DEF Reject, Unlock, TypeOK, DealTypes
    <3>7. ReadAfterPublished'
      BY <3>1, <3>4, <3>5 DEF ReadAfterPublished
    <3>8. PublisherIsLater'
      BY <3>1, <3>4, <3>6 DEF PublisherIsLater, RoundChanged
    <3>9. QED
      BY <3>3, <3>7, <3>8
  <2>8. ASSUME NEW t \in Threads, CountFirst(t) PROVE PublicationInv'
    <3>1. PICK i \in Ifaces : i = job[t].iface
      BY DEF TypeOK, DealTypes
    <3>2. ASSUME NEW j \in Ifaces, j # i PROVE Publishing(j)' = Publishing(j)
      BY <2>8, <3>1, <3>2 DEF CountFirst, Unlock, Recognise, Publishing, TypeOK, DealTypes
    <3>3. round[i] = NoRound /\ job[t].round \in Rounds /\ pc[t] = "held"
      BY <2>8, <3>1 DEF CountFirst, PublisherIsLater, RoundChanged, ClockInv, TypeOK, DealTypes, Held
    <3>4. ~Publishing(i)'
      BY <2>8, <3>1, OnlyPublisher DEF CountFirst, Unlock, Recognise, Publishing, Held, TypeOK, DealTypes
    <3>5. /\ UNCHANGED <<now, job, pubs>>
          /\ round'[i] = job[t].round
          /\ \A j \in Ifaces : j # i => round'[j] = round[j]
          /\ pc' = [pc EXCEPT ![t] = "idle"]
      BY <2>8, <3>1 DEF CountFirst, Unlock, Recognise, TypeOK, RecordTypes
    <3>6. PublishedPast'
      BY <3>5 DEF PublishedPast
    <3>7. OpenAfterPublished'
      <4>1. ASSUME NEW r \in Rounds, pubs[i][r] > 0 PROVE r < job[t].round
        BY <3>1, <3>3, <4>1 DEF ReadAfterPublished, Held
      <4>2. QED
        BY <3>2, <3>5, <4>1 DEF OpenAfterPublished
    <3>8. ReadAfterPublished'
      <4>1. round'[i] # NoRound
        BY <3>3, <3>5, RoundCounterAssumption DEF Rounds, NoRound
      <4>2. ASSUME NEW u \in Threads, pc'[u] \in {"ready"} \cup Held,
                   round'[job[u].iface] = NoRound
            PROVE  pc'[u] = pc[u] /\ round[job[u].iface] = NoRound
        <5>1. job[u].iface # i
          BY <4>1, <4>2
        <5>2. u # t
          BY <3>1, <5>1
        <5>3. QED
          BY <3>5, <4>2, <5>1, <5>2 DEF TypeOK, DealTypes
      <4>3. QED
        BY <3>5, <4>2 DEF ReadAfterPublished
    <3>9. PublisherIsLater'
      <4>1. ASSUME NEW u \in Threads, pc'[u] = "published"
            PROVE  round'[job[u].iface] = round[job[u].iface] /\ pc[u] = "published"
        <5>1. pc[u] = "published"
          BY <3>5, <4>1 DEF TypeOK, DealTypes
        <5>2. job[u].iface # i
          BY <3>4, <3>5, <4>1 DEF Publishing
        <5>3. QED
          BY <3>5, <5>1, <5>2 DEF TypeOK, DealTypes
      <4>2. QED
        BY <3>5, <4>1 DEF PublisherIsLater, RoundChanged
    <3>10. QED
      BY <3>6, <3>7, <3>8, <3>9
  <2>9. ASSUME NEW t \in Threads, CountMore(t) PROVE PublicationInv'
    <3>1. PICK i \in Ifaces : i = job[t].iface
      BY DEF TypeOK, DealTypes
    <3>2. ASSUME NEW j \in Ifaces, j # i PROVE Publishing(j)' = Publishing(j)
      BY <2>9, <3>1, <3>2 DEF CountMore, Unlock, Recognise, Publishing, TypeOK, DealTypes
    <3>3. round[i] # NoRound /\ pc[t] = "held"
      BY <2>9, <3>1 DEF CountMore, PublisherIsLater, RoundChanged, ClockInv, TypeOK, DealTypes, Held
    <3>4. ~Publishing(i)'
      BY <2>9, <3>1, OnlyPublisher DEF CountMore, Unlock, Recognise, Publishing, Held, TypeOK, DealTypes
    <3>5. /\ UNCHANGED <<now, job, pubs>>
          /\ round'[i] = round[i]
          /\ \A j \in Ifaces : j # i => round'[j] = round[j]
          /\ pc' = [pc EXCEPT ![t] = "idle"]
      BY <2>9, <3>1 DEF CountMore, Unlock, Recognise, TypeOK, RecordTypes
    <3>6. PublishedPast'
      BY <3>5 DEF PublishedPast
    <3>7. OpenAfterPublished'
      <4>1. ASSUME NEW r \in Rounds, pubs[i][r] > 0 PROVE r < round[i]
        <5>1. ~Publishing(i)
          BY <2>9, <3>1, <3>3, OnlyPublisher DEF Publishing, Held
        <5>2. QED
          BY <3>3, <4>1, <5>1 DEF OpenAfterPublished
      <4>2. QED
        BY <3>2, <3>5, <4>1 DEF OpenAfterPublished
    <3>8. ReadAfterPublished'
      <4>1. round'[i] # NoRound
        BY <3>3, <3>5, RoundCounterAssumption DEF Rounds, NoRound
      <4>2. ASSUME NEW u \in Threads, pc'[u] \in {"ready"} \cup Held,
                   round'[job[u].iface] = NoRound
            PROVE  pc'[u] = pc[u] /\ round[job[u].iface] = NoRound
        <5>1. job[u].iface # i
          BY <4>1, <4>2
        <5>2. u # t
          BY <3>1, <5>1
        <5>3. QED
          BY <3>5, <4>2, <5>1, <5>2 DEF TypeOK, DealTypes
      <4>3. QED
        BY <3>5, <4>2 DEF ReadAfterPublished
    <3>9. PublisherIsLater'
      <4>1. ASSUME NEW u \in Threads, pc'[u] = "published"
            PROVE  round'[job[u].iface] = round[job[u].iface] /\ pc[u] = "published"
        <5>1. pc[u] = "published"
          BY <3>5, <4>1 DEF TypeOK, DealTypes
        <5>2. job[u].iface # i
          BY <3>4, <3>5, <4>1 DEF Publishing
        <5>3. QED
          BY <3>5, <5>1, <5>2 DEF TypeOK, DealTypes
      <4>2. QED
        BY <3>5, <4>1 DEF PublisherIsLater, RoundChanged
    <3>10. QED
      BY <3>6, <3>7, <3>8, <3>9
  <2>10. ASSUME NEW t \in Threads, Publish(t) PROVE PublicationInv'
    <3>1. PICK i \in Ifaces : i = job[t].iface
      BY DEF TypeOK, DealTypes
    <3>2. ASSUME NEW j \in Ifaces, j # i PROVE Publishing(j)' = Publishing(j)
      BY <2>10, <3>1, <3>2 DEF Publish, Publishing, TypeOK, DealTypes
    <3>3. /\ pc[t] = "held" /\ round[i] \in Rounds /\ job[t].round \in Rounds
          /\ round[i] < job[t].round /\ job[t].round <= now
      BY <2>10, <3>1 DEF Publish, RoundChanged, ClockInv, TypeOK, RecordTypes, DealTypes, Held
    <3>4. ~Publishing(i) /\ Publishing(i)'
      BY <2>10, <3>1, OnlyPublisher DEF Publish, Publishing, Held, TypeOK, DealTypes
    <3>5. /\ UNCHANGED <<now, job, round>>
          /\ pc' = [pc EXCEPT ![t] = "published"]
          /\ \A j \in Ifaces, r \in Rounds :
                j # i \/ r # round[i] => pubs'[j][r] = pubs[j][r]
      BY <2>10, <3>1 DEF Publish, TypeOK, RecordTypes
    <3>6. PublishedPast'
      <4>1. ASSUME NEW j \in Ifaces, NEW r \in Rounds, pubs'[j][r] > 0 PROVE r < now
        <5>1. CASE j = i /\ r = round[i]
          BY <3>3, <5>1, RoundCounterAssumption DEF Rounds, TypeOK, ClockTypes
        <5>2. CASE ~(j = i /\ r = round[i])
          BY <3>5, <4>1, <5>2 DEF PublishedPast
        <5>3. QED
          BY <5>1, <5>2
      <4>2. QED
        BY <3>5, <4>1 DEF PublishedPast
    <3>7. OpenAfterPublished'
      <4>1. ASSUME NEW j \in Ifaces, NEW r \in Rounds, round[j] # NoRound, pubs'[j][r] > 0
            PROVE  r < round[j] \/ (r = round[j] /\ Publishing(j)')
        <5>1. CASE j = i /\ r = round[i]
          BY <3>4, <5>1
        <5>2. CASE j = i /\ r # round[i]
          BY <3>4, <3>5, <4>1, <5>2 DEF OpenAfterPublished
        <5>3. CASE j # i
          BY <3>2, <3>5, <4>1, <5>3 DEF OpenAfterPublished
        <5>4. QED
          BY <5>1, <5>2, <5>3
      <4>2. QED
        BY <3>5, <4>1 DEF OpenAfterPublished
    <3>8. ReadAfterPublished'
      <4>1. ASSUME NEW u \in Threads, NEW r \in Rounds, pc'[u] \in {"ready"} \cup Held,
                   round[job[u].iface] = NoRound, pubs'[job[u].iface][r] > 0
            PROVE  r < job[u].round
        <5>1. job[u].iface # i /\ u # t
          BY <3>1, <3>3, <4>1, RoundCounterAssumption DEF Rounds, NoRound
        <5>2. pc'[u] = pc[u] /\ pubs'[job[u].iface][r] = pubs[job[u].iface][r]
          BY <3>5, <5>1 DEF TypeOK, DealTypes
        <5>3. QED
          BY <4>1, <5>2 DEF ReadAfterPublished
      <4>2. QED
        BY <3>5, <4>1 DEF ReadAfterPublished
    <3>9. PublisherIsLater'
      BY <3>1, <3>3, <3>5, RoundCounterAssumption
      DEF PublisherIsLater, RoundChanged, Rounds, NoRound, TypeOK, DealTypes
    <3>10. QED
      BY <3>6, <3>7, <3>8, <3>9
  <2>11. ASSUME NEW t \in Threads, StartRound(t) PROVE PublicationInv'
    <3>1. PICK i \in Ifaces : i = job[t].iface
      BY DEF TypeOK, DealTypes
    <3>2. ASSUME NEW j \in Ifaces, j # i PROVE Publishing(j)' = Publishing(j)
      BY <2>11, <3>1, <3>2 DEF StartRound, Unlock, Recognise, Publishing, TypeOK, DealTypes
    <3>3. round[i] # NoRound /\ round[i] < job[t].round /\ job[t].round \in Rounds
      BY <2>11, <3>1 DEF StartRound, PublisherIsLater, RoundChanged, ClockInv, TypeOK, DealTypes, Held
    <3>4. ~Publishing(i)'
      BY <2>11, <3>1, OnlyPublisher DEF StartRound, Unlock, Recognise, Publishing, Held, TypeOK, DealTypes
    <3>5. /\ UNCHANGED <<now, job, pubs>>
          /\ round'[i] = job[t].round
          /\ \A j \in Ifaces : j # i => round'[j] = round[j]
          /\ pc' = [pc EXCEPT ![t] = "idle"]
      BY <2>11, <3>1 DEF StartRound, Unlock, Recognise, TypeOK, RecordTypes
    <3>6. PublishedPast'
      BY <3>5 DEF PublishedPast
    <3>7. OpenAfterPublished'
      <4>1. ASSUME NEW r \in Rounds, pubs[i][r] > 0 PROVE r < job[t].round
        <5>1. r < round[i] \/ r = round[i]
          BY <3>3, <4>1 DEF OpenAfterPublished
        <5>2. r \in Int /\ round[i] \in Int /\ job[t].round \in Int
          BY <3>3 DEF TypeOK, RecordTypes, Rounds, NoRound
        <5>3. QED
          BY <3>3, <5>1, <5>2
      <4>2. QED
        BY <3>2, <3>5, <4>1 DEF OpenAfterPublished
    <3>8. ReadAfterPublished'
      <4>1. round'[i] # NoRound
        BY <3>3, <3>5, RoundCounterAssumption DEF Rounds, NoRound
      <4>2. ASSUME NEW u \in Threads, pc'[u] \in {"ready"} \cup Held,
                   round'[job[u].iface] = NoRound
            PROVE  pc'[u] = pc[u] /\ round[job[u].iface] = NoRound
        <5>1. job[u].iface # i
          BY <4>1, <4>2
        <5>2. u # t
          BY <3>1, <5>1
        <5>3. QED
          BY <3>5, <4>2, <5>1, <5>2 DEF TypeOK, DealTypes
      <4>3. QED
        BY <3>5, <4>2 DEF ReadAfterPublished
    <3>9. PublisherIsLater'
      <4>1. ASSUME NEW u \in Threads, pc'[u] = "published"
            PROVE  round'[job[u].iface] = round[job[u].iface] /\ pc[u] = "published"
        <5>1. pc[u] = "published"
          BY <3>5, <4>1 DEF TypeOK, DealTypes
        <5>2. job[u].iface # i
          BY <3>4, <3>5, <4>1 DEF Publishing
        <5>3. QED
          BY <3>5, <5>1, <5>2 DEF TypeOK, DealTypes
      <4>2. QED
        BY <3>5, <4>1 DEF PublisherIsLater, RoundChanged
    <3>10. QED
      BY <3>6, <3>7, <3>8, <3>9
  <2>12. QED
    BY <2>1, <2>2, <2>3, <2>4, <2>5, <2>6, <2>7, <2>8, <2>9, <2>10, <2>11
    DEF Next, Deal, vars, tx, records, PeerTick, PeerRestart, BeginTest, SendPackage, Lose
<1>3. QED
  BY <1>1, <1>2, TypeCorrect, MutexCorrect, ClockCorrect, PTL DEF Spec

\* Rounds are published in strictly rising order and none twice, whatever
\* threads overlap and wherever the process is restarted.
THEOREM OrderKept == Spec => PublishedInOrder
<1> DEFINE A == \A i \in Ifaces, r \in Rounds :
                  pubs'[i][r] # pubs[i][r] => \A q \in Rounds : pubs[i][q] > 0 => q < r
<1>1. TypeOK /\ MutexInv /\ PublicationInv /\ [Next]_vars => [A]_vars
  <2> SUFFICES ASSUME TypeOK, MutexInv, PublicationInv, Next PROVE A
    OBVIOUS
  <2>1. CASE pubs' = pubs
    BY <2>1
  <2>2. ASSUME NEW t \in Threads, Publish(t) PROVE A
    <3>1. PICK i \in Ifaces : i = job[t].iface
      BY DEF TypeOK, DealTypes
    <3>2. ~Publishing(i) /\ round[i] # NoRound
      BY <2>2, <3>1, OnlyPublisher DEF Publish, Publishing, Held
    <3>3. \A j \in Ifaces, r \in Rounds : pubs'[j][r] # pubs[j][r] => j = i /\ r = round[i]
      BY <2>2, <3>1 DEF Publish, TypeOK, RecordTypes
    <3>4. QED
      BY <3>2, <3>3 DEF PublicationInv, OpenAfterPublished
  <2>3. QED
    BY <2>1, <2>2
    DEF Next, Deal, records, Tick, Restart, PeerTick, PeerRestart, BeginTest, SendPackage,
        Lose, Receive, ReadClock, Lock, Reject, CountFirst, CountMore, StartRound
<1>2. QED
  BY <1>1, TypeCorrect, MutexCorrect, PublicationCorrect, PTL DEF Spec, PublishedInOrder

-----------------------------------------------------------------------------
(***************************************************************************)
(* How much a published count can exceed what was sent.                    *)
(*                                                                         *)
(* A message is under way, or some thread has it, and it is not recognised *)
(* before: no more messages of a round are in flight than were sent.  The  *)
(* open round of an interface counts its own messages and those of older   *)
(* rounds whose threads had read the clock when it was opened.  A thread   *)
(* that reads the clock later reads the open round or a later one, so the  *)
(* number of these stale threads can only fall, and every fall raises the  *)
(* count by one at most.                                                   *)
(***************************************************************************)

\* The threads that have a message of round r for the interface i.
Flying(i, r) ==
    {t \in Threads : pc[t] # "idle" /\ job[t].iface = i /\ job[t].label = r}

\* The threads that have read an older round than the open one.
Stale(i) ==
    {t \in Threads : /\ pc[t] \in {"ready", "held"}
                     /\ job[t].iface = i /\ job[t].round < round[i]}

FlightInv ==
    \A i \in Ifaces, r \in Rounds : air[i][r] + Cardinality(Flying(i, r)) <= sent[i][r]

OpenInv ==
    \A i \in Ifaces \ CanIfaces :
        round[i] # NoRound =>
            cnt[i] + Cardinality(Stale(i)) + air[i][round[i]] + Cardinality(Flying(i, round[i]))
                <= sent[i][round[i]] + Cardinality(Threads) - 1

LEMMA ThreadsCounted ==
  ASSUME NEW S \in SUBSET Threads
  PROVE  IsFiniteSet(S) /\ Cardinality(S) \in Nat
BY RoundCounterAssumption, FS_Subset, FS_CardinalityType

LEMMA FewerThreads ==
  ASSUME NEW S \in SUBSET Threads, NEW T \in SUBSET S
  PROVE  Cardinality(T) <= Cardinality(S)
BY ThreadsCounted, FS_Subset

\* Two sets of threads that agree on all but one of them.
LEMMA OneThread ==
  ASSUME NEW S \in SUBSET Threads, NEW T \in SUBSET Threads, NEW t, S \ {t} = T \ {t}
  PROVE  /\ t \in S /\ t \notin T => Cardinality(S) = Cardinality(T) + 1
         /\ t \notin S /\ t \in T => Cardinality(T) = Cardinality(S) + 1
         /\ (t \in S <=> t \in T) => S = T
<1>1. Cardinality(S) \in Nat /\ Cardinality(T) \in Nat /\ IsFiniteSet(S) /\ IsFiniteSet(T)
  BY ThreadsCounted
<1>2. ASSUME t \in S, t \notin T PROVE Cardinality(S) = Cardinality(T) + 1
  <2>1. T = S \ {t} BY <1>2
  <2>2. Cardinality(T) = Cardinality(S) - 1 BY <1>1, <1>2, <2>1, FS_RemoveElement
  <2>3. QED BY <1>1, <2>2
<1>3. ASSUME t \notin S, t \in T PROVE Cardinality(T) = Cardinality(S) + 1
  <2>1. S = T \ {t} BY <1>3
  <2>2. Cardinality(S) = Cardinality(T) - 1 BY <1>1, <1>3, <2>1, FS_RemoveElement
  <2>3. QED BY <1>1, <2>2
<1>4. QED BY <1>2, <1>3

\* What a step does to the sets when it moves one thread.
LEMMA OthersStay ==
  ASSUME NEW t \in Threads, NEW i \in Ifaces,
         \A u \in Threads \ {t} : pc'[u] = pc[u] /\ job'[u] = job[u]
  PROVE  /\ \A r : Flying(i, r)' \ {t} = Flying(i, r) \ {t}
         /\ round'[i] = round[i] => Stale(i)' \ {t} = Stale(i) \ {t}
         /\ \A r : Flying(i, r) \in SUBSET Threads /\ Flying(i, r)' \in SUBSET Threads
         /\ Stale(i) \in SUBSET Threads /\ Stale(i)' \in SUBSET Threads
BY DEF Flying, Stale

\* The test thread adds the same to what was sent and to what is under way.
LEMMA PackageAdds ==
  ASSUME TypeOK, NEW j \in Ifaces, SendPackage(j), NEW i \in Ifaces, NEW r \in Rounds
  PROVE  air'[i][r] - air[i][r] = sent'[i][r] - sent[i][r] /\ air'[i][r] \in Nat /\ sent'[i][r] \in Nat
<1>1. air[i][r] \in Nat /\ sent[i][r] \in Nat BY DEF TypeOK, TxTypes
<1>2. CASE i = j /\ r = txRound[j]
  BY <1>1, <1>2 DEF SendPackage, TypeOK, TxTypes
<1>3. CASE ~(i = j /\ r = txRound[j])
  <2>1. air'[i][r] = air[i][r] /\ sent'[i][r] = sent[i][r]
    BY <1>3 DEF SendPackage, TypeOK, TxTypes
  <2>2. QED BY <1>1, <2>1
<1>4. QED BY <1>2, <1>3

\* A thread that deals with its message does not get another one meanwhile.
LEMMA DealKeepsMessage ==
  ASSUME TypeOK, NEW t \in Threads, Deal(t)
  PROVE  /\ \A u \in Threads \ {t} : pc'[u] = pc[u] /\ job'[u] = job[u]
         /\ job'[t].iface = job[t].iface /\ job'[t].label = job[t].label
         /\ pc[t] # "idle" /\ UNCHANGED <<air, sent>>
BY DEF Deal, ReadClock, Lock, Reject, CountFirst, CountMore, Publish, StartRound, Unlock,
       TypeOK, DealTypes, tx

\* No more messages of a round are under way or in the hands of threads than
\* were sent with its label, restarts of either side included.
THEOREM FlightCorrect == Spec => []FlightInv
<1>1. Init => FlightInv
  <2> SUFFICES ASSUME Init, NEW i \in Ifaces, NEW r \in Rounds
               PROVE  air[i][r] + Cardinality(Flying(i, r)) <= sent[i][r]
    BY DEF FlightInv
  <2>1. Flying(i, r) = {} BY DEF Init, Flying
  <2>2. QED BY <2>1, FS_EmptySet DEF Init, NoneYet
<1>2. TypeOK /\ FlightInv /\ [Next]_vars => FlightInv'
  <2> SUFFICES ASSUME TypeOK, FlightInv, [Next]_vars, NEW i \in Ifaces, NEW r \in Rounds
               PROVE  air'[i][r] + Cardinality(Flying(i, r)') <= sent'[i][r]
    BY DEF FlightInv
  <2>0. /\ air[i][r] \in Nat /\ sent[i][r] \in Nat /\ Cardinality(Flying(i, r)) \in Nat
        /\ air[i][r] + Cardinality(Flying(i, r)) <= sent[i][r]
        /\ Flying(i, r) \in SUBSET Threads
    BY ThreadsCounted DEF TypeOK, TxTypes, FlightInv, Flying
  <2>1. CASE UNCHANGED <<air, sent, pc, job>>
    BY <2>0, <2>1 DEF Flying
  <2>2. CASE Restart
    <3>1. Flying(i, r)' = {} BY <2>2 DEF Restart, Flying
    <3>2. UNCHANGED <<air, sent>> BY <2>2 DEF Restart, tx
    <3>3. QED BY <2>0, <3>1, <3>2, FS_EmptySet
  <2>3. ASSUME NEW j \in Ifaces, SendPackage(j)
        PROVE  air'[i][r] + Cardinality(Flying(i, r)') <= sent'[i][r]
    <3>1. Flying(i, r)' = Flying(i, r) BY <2>3 DEF SendPackage, Flying
    <3>2. air'[i][r] - air[i][r] = sent'[i][r] - sent[i][r] /\ air'[i][r] \in Nat /\ sent'[i][r] \in Nat
      BY <2>3, PackageAdds
    <3>3. QED BY <2>0, <3>1, <3>2
  <2>4. ASSUME NEW j \in Ifaces, NEW l \in Rounds, Lose(j, l)
        PROVE  air'[i][r] + Cardinality(Flying(i, r)') <= sent'[i][r]
    <3>1. Flying(i, r)' = Flying(i, r) /\ sent' = sent BY <2>4 DEF Lose, Flying, tx
    <3>2. air'[i][r] = air[i][r] \/ air'[i][r] = air[i][r] - 1
      BY <2>4 DEF Lose, TypeOK, TxTypes
    <3>3. QED BY <2>0, <3>1, <3>2
  <2>5. ASSUME NEW j \in Ifaces, NEW l \in Rounds, NEW t \in Threads, Receive(j, l, t)
        PROVE  air'[i][r] + Cardinality(Flying(i, r)') <= sent'[i][r]
    <3>1. /\ \A u \in Threads \ {t} : pc'[u] = pc[u] /\ job'[u] = job[u]
          /\ pc[t] = "idle" /\ pc'[t] # "idle" /\ sent' = sent
          /\ job'[t].iface = j /\ job'[t].label = l
      BY <2>5 DEF Receive, TypeOK, DealTypes, tx
    <3>2. /\ Flying(i, r)' \ {t} = Flying(i, r) \ {t} /\ Flying(i, r)' \in SUBSET Threads
          /\ t \notin Flying(i, r)
      BY <3>1, OthersStay DEF Flying
    <3>3. CASE i = j /\ r = l
      <4>1. air'[i][r] = air[i][r] - 1 BY <2>5, <3>3 DEF Receive, TypeOK, TxTypes
      <4>2. t \in Flying(i, r)' BY <3>1, <3>3 DEF Flying
      <4>3. Cardinality(Flying(i, r)') = Cardinality(Flying(i, r)) + 1
        BY <2>0, <3>2, <4>2, OneThread
      <4>4. QED BY <2>0, <3>1, <4>1, <4>3
    <3>4. CASE ~(i = j /\ r = l)
      <4>1. air'[i][r] = air[i][r] BY <2>5, <3>4 DEF Receive, TypeOK, TxTypes
      <4>2. t \notin Flying(i, r)' BY <3>1, <3>4 DEF Flying
      <4>3. Flying(i, r)' = Flying(i, r) BY <3>2, <4>2
      <4>4. QED BY <2>0, <3>1, <4>1, <4>3
    <3>5. QED BY <3>3, <3>4
  <2>6. ASSUME NEW t \in Threads, Deal(t)
        PROVE  air'[i][r] + Cardinality(Flying(i, r)') <= sent'[i][r]
    <3>1. Flying(i, r)' \in SUBSET Flying(i, r) /\ UNCHANGED <<air, sent>>
      BY <2>6, DealKeepsMessage DEF Flying
    <3>2. Cardinality(Flying(i, r)') <= Cardinality(Flying(i, r))
      BY <2>0, <3>1, FewerThreads
    <3>3. Cardinality(Flying(i, r)') \in Nat
      BY <2>0, <3>1, ThreadsCounted
    <3>4. QED BY <2>0, <3>1, <3>2, <3>3
  <2>7. QED
    BY <2>1, <2>2, <2>3, <2>4, <2>5, <2>6
    DEF Next, vars, Tick, PeerTick, PeerRestart, BeginTest, tx
<1>3. QED
  BY <1>1, <1>2, TypeCorrect, PTL DEF Spec

\* The bound of OpenInv on one interface, as it is before a step.
OpenBound(i) ==
    cnt[i] + Cardinality(Stale(i)) + air[i][round[i]] + Cardinality(Flying(i, round[i]))
        <= sent[i][round[i]] + Cardinality(Threads) - 1

\* A step that leaves the count and the round alone, and no stale thread more
\* and no message more under way than sent.
LEMMA BoundStays ==
  ASSUME TypeOK, TypeOK', NEW i \in Ifaces, round[i] # NoRound, OpenBound(i),
         round'[i] = round[i], cnt'[i] = cnt[i],
         Cardinality(Stale(i)') <= Cardinality(Stale(i)),
         air'[i][round[i]] + Cardinality(Flying(i, round[i])') - sent'[i][round[i]]
            <= air[i][round[i]] + Cardinality(Flying(i, round[i])) - sent[i][round[i]]
  PROVE  OpenBound(i)'
<1>1. PICK r \in Rounds : r = round[i] BY DEF TypeOK, RecordTypes
<1>2. /\ air[i][r] \in Nat /\ sent[i][r] \in Nat /\ cnt[i] \in Nat
      /\ air'[i][r] \in Nat /\ sent'[i][r] \in Nat
  BY <1>1 DEF TypeOK, TxTypes, RecordTypes
<1>3. /\ Cardinality(Stale(i)) \in Nat /\ Cardinality(Stale(i)') \in Nat
      /\ Cardinality(Flying(i, r)) \in Nat /\ Cardinality(Flying(i, r)') \in Nat
      /\ Cardinality(Threads) \in Nat
  <2>1. /\ Stale(i) \in SUBSET Threads /\ Stale(i)' \in SUBSET Threads
        /\ Flying(i, r) \in SUBSET Threads /\ Flying(i, r)' \in SUBSET Threads
        /\ Threads \in SUBSET Threads
    BY DEF Stale, Flying
  <2>2. QED BY <2>1, ThreadsCounted
<1>4. Flying(i, round[i])' = Flying(i, r)' BY <1>1 DEF Flying
<1>5. /\ cnt[i] + Cardinality(Stale(i)) + air[i][r] + Cardinality(Flying(i, r))
            <= sent[i][r] + Cardinality(Threads) - 1
      /\ air'[i][r] + Cardinality(Flying(i, r)') - sent'[i][r]
            <= air[i][r] + Cardinality(Flying(i, r)) - sent[i][r]
  BY <1>1, <1>4 DEF OpenBound
<1>6. cnt'[i] + Cardinality(Stale(i)') + air'[i][r] + Cardinality(Flying(i, r)')
            <= sent'[i][r] + Cardinality(Threads) - 1
  BY <1>2, <1>3, <1>5
<1>7. QED BY <1>1, <1>4, <1>6 DEF OpenBound

\* The first message of a round opens it: every other thread may be stale, and
\* the message itself is no longer in flight.
LEMMA BoundOpens ==
  ASSUME TypeOK, TypeOK', NEW t \in Threads, NEW i \in Ifaces, i = job[t].iface, i \notin CanIfaces,
         FlightInv, Expected(t), pc[t] \in Held, job[t].round \in Rounds,
         CountFirst(t) \/ StartRound(t)
  PROVE  OpenBound(i)'
<1>0. PICK r \in Rounds : r = job[t].round
  OBVIOUS
<1>1. /\ job[t].label = r /\ cnt' = [cnt EXCEPT ![i] = 1]
      /\ round' = [round EXCEPT ![i] = r] /\ UNCHANGED <<air, sent>>
      /\ pc'[t] = "idle"
  BY <1>0 DEF Expected, CountFirst, StartRound, Unlock, TypeOK, DealTypes, tx
<1>2. cnt'[i] = 1 /\ round'[i] = r
  BY <1>1 DEF TypeOK, RecordTypes
<1>3. \A u \in Threads \ {t} : pc'[u] = pc[u] /\ job'[u] = job[u]
  BY DealKeepsMessage DEF Deal
<1>4. /\ Flying(i, r) \in SUBSET Threads /\ Flying(i, r)' \in SUBSET Threads
      /\ Flying(i, r) \ {t} = Flying(i, r)' \ {t}
  BY <1>3, OthersStay
<1>5. t \in Flying(i, r) /\ t \notin Flying(i, r)'
  BY <1>1 DEF Flying, Held
<1>6. Cardinality(Flying(i, r)) = Cardinality(Flying(i, r)') + 1
  BY <1>4, <1>5, OneThread
<1>7. Stale(i)' \in SUBSET (Threads \ {t}) BY <1>1 DEF Stale
<1>8. Cardinality(Stale(i)') <= Cardinality(Threads) - 1
  <2>1. /\ Threads \ {t} \in SUBSET Threads /\ Threads \in SUBSET Threads
        /\ (Threads \ {t}) \ {t} = Threads \ {t} /\ t \notin Threads \ {t}
    OBVIOUS
  <2>2. Cardinality(Threads) = Cardinality(Threads \ {t}) + 1 BY <2>1, OneThread
  <2>3. Cardinality(Stale(i)') <= Cardinality(Threads \ {t})
    BY <1>7, <2>1, FewerThreads
  <2>4. Cardinality(Threads \ {t}) \in Nat /\ Cardinality(Stale(i)') \in Nat
    BY <1>7, <2>1, ThreadsCounted
  <2>5. QED BY <2>2, <2>3, <2>4
<1>9. /\ air[i][r] \in Nat /\ sent[i][r] \in Nat /\ Cardinality(Flying(i, r)') \in Nat
      /\ Cardinality(Stale(i)') \in Nat /\ Cardinality(Threads) \in Nat
  BY <1>1, <1>4, <1>7, ThreadsCounted DEF TypeOK, TxTypes
<1>10. air[i][r] + Cardinality(Flying(i, r)) <= sent[i][r]
  BY DEF FlightInv
<1>11. 1 + Cardinality(Stale(i)') + air[i][r] + Cardinality(Flying(i, r)')
          <= sent[i][r] + Cardinality(Threads) - 1
  BY <1>6, <1>8, <1>9, <1>10
<1>12. Flying(i, round[i])' = Flying(i, r)' BY <1>2 DEF Flying
<1>13. QED BY <1>1, <1>2, <1>11, <1>12 DEF OpenBound

\* A counted message was in flight, or its thread was stale, but not both.
LEMMA BoundCounts ==
  ASSUME TypeOK, NEW t \in Threads, NEW i \in Ifaces, i = job[t].iface, i \notin CanIfaces,
         OpenBound(i), CountMore(t), job[t].round \in Rounds
  PROVE  OpenBound(i)'
<1>0. PICK r \in Rounds : r = round[i]
  BY DEF CountMore, TypeOK, RecordTypes
<1>1. /\ pc[t] = "held" /\ pc'[t] = "idle" /\ job[t].label = job[t].round /\ job[t].round <= r
      /\ cnt'[i] = cnt[i] + 1 /\ UNCHANGED <<round, air, sent>>
      /\ job[t].iface = i
  BY <1>0 DEF Expected, RoundChanged, CountMore, Unlock, TypeOK, DealTypes, RecordTypes, Rounds, NoRound, tx
<1>2. \A u \in Threads \ {t} : pc'[u] = pc[u] /\ job'[u] = job[u]
  BY DealKeepsMessage DEF Deal
<1>3. /\ Flying(i, r) \in SUBSET Threads /\ Flying(i, r)' \in SUBSET Threads
      /\ Flying(i, r) \ {t} = Flying(i, r)' \ {t}
      /\ Stale(i) \in SUBSET Threads /\ Stale(i)' \in SUBSET Threads
      /\ Stale(i) \ {t} = Stale(i)' \ {t}
  BY <1>1, <1>2, OthersStay
<1>4. t \notin Flying(i, r)' /\ t \notin Stale(i)' BY <1>1 DEF Flying, Stale
<1>5. Cardinality(Stale(i)') + Cardinality(Flying(i, r)') + 1
        = Cardinality(Stale(i)) + Cardinality(Flying(i, r))
  <2>1. /\ Cardinality(Stale(i)') \in Nat /\ Cardinality(Flying(i, r)') \in Nat
        /\ Cardinality(Stale(i)) \in Nat /\ Cardinality(Flying(i, r)) \in Nat
    BY <1>3, ThreadsCounted
  <2>2. CASE job[t].round = r
    <3>1. t \in Flying(i, r) /\ t \notin Stale(i) BY <1>0, <1>1, <2>2 DEF Flying, Stale, Rounds
    <3>2. Stale(i) = Stale(i)' BY <1>3, <1>4, <3>1
    <3>3. Cardinality(Flying(i, r)) = Cardinality(Flying(i, r)') + 1
      BY <1>3, <1>4, <3>1, OneThread
    <3>4. QED BY <2>1, <3>2, <3>3
  <2>3. CASE job[t].round # r
    <3>1. t \notin Flying(i, r) /\ t \in Stale(i) BY <1>0, <1>1, <2>3 DEF Flying, Stale, Rounds
    <3>2. Flying(i, r) = Flying(i, r)' BY <1>3, <1>4, <3>1
    <3>3. Cardinality(Stale(i)) = Cardinality(Stale(i)') + 1
      BY <1>3, <1>4, <3>1, OneThread
    <3>4. QED BY <2>1, <3>2, <3>3
  <2>4. QED BY <2>2, <2>3
<1>6. /\ air[i][r] \in Nat /\ sent[i][r] \in Nat /\ cnt[i] \in Nat
      /\ Cardinality(Stale(i)') \in Nat /\ Cardinality(Flying(i, r)') \in Nat
      /\ Cardinality(Stale(i)) \in Nat /\ Cardinality(Flying(i, r)) \in Nat
      /\ Cardinality(Threads) \in Nat
  BY <1>1, <1>3, ThreadsCounted DEF TypeOK, TxTypes, RecordTypes
<1>7. cnt[i] + Cardinality(Stale(i)) + air[i][r] + Cardinality(Flying(i, r))
          <= sent[i][r] + Cardinality(Threads) - 1
  BY <1>0 DEF OpenBound
<1>8. cnt[i] + 1 + Cardinality(Stale(i)') + air[i][r] + Cardinality(Flying(i, r)')
          <= sent[i][r] + Cardinality(Threads) - 1
  BY <1>5, <1>6, <1>7
<1>9. round'[i] = r /\ Flying(i, round[i])' = Flying(i, r)' BY <1>0, <1>1 DEF Flying
<1>10. QED BY <1>1, <1>8, <1>9 DEF OpenBound

\* A thread that deals with a message of another interface does not touch the
\* count of this one.
LEMMA ElsewhereStays ==
  ASSUME TypeOK, TypeOK', NEW t \in Threads, Deal(t), NEW i \in Ifaces, job[t].iface # i,
         round[i] # NoRound, OpenBound(i)
  PROVE  OpenBound(i)' /\ round'[i] = round[i]
<1>1. cnt'[i] = cnt[i] /\ round'[i] = round[i]
  BY DEF Deal, ReadClock, Lock, Reject, CountFirst, CountMore, Publish, StartRound, Unlock,
         TypeOK, DealTypes, RecordTypes, records
<1>2. /\ \A u \in Threads \ {t} : pc'[u] = pc[u] /\ job'[u] = job[u]
      /\ job'[t].iface = job[t].iface /\ UNCHANGED <<air, sent>>
  BY DealKeepsMessage
<1>3. Stale(i)' = Stale(i) BY <1>1, <1>2 DEF Stale
<1>4. Flying(i, round[i])' = Flying(i, round[i]) BY <1>1, <1>2 DEF Flying
<1>5. QED BY <1>1, <1>2, <1>3, <1>4 DEF OpenBound

\* A started thread reads a round that is not older than the open one.
LEMMA ReaderIsNotStale ==
  ASSUME TypeOK, TypeOK', ClockInv, NEW t \in Threads, ReadClock(t), NEW i \in Ifaces,
         round[i] # NoRound, OpenBound(i)
  PROVE  OpenBound(i)'
<1>1. /\ pc[t] = "started" /\ job'[t].round = now /\ job'[t].iface = job[t].iface
      /\ job'[t].label = job[t].label /\ pc'[t] = "ready"
      /\ \A u \in Threads \ {t} : pc'[u] = pc[u] /\ job'[u] = job[u]
      /\ UNCHANGED <<cnt, round, air, sent>>
  BY DEF ReadClock, TypeOK, DealTypes, records, tx
<1>2. round[i] <= now /\ round[i] \in Int /\ now \in Int
  BY DEF ClockInv, TypeOK, ClockTypes, RecordTypes, Rounds, NoRound
<1>3. Stale(i)' = Stale(i)
  <2>1. t \notin Stale(i) /\ t \notin Stale(i)' BY <1>1, <1>2 DEF Stale
  <2>2. Stale(i)' \ {t} = Stale(i) \ {t} BY <1>1, OthersStay
  <2>3. QED BY <2>1, <2>2
<1>4. Flying(i, round[i])' = Flying(i, round[i]) BY <1>1 DEF Flying
<1>5. QED BY <1>1, <1>3, <1>4 DEF OpenBound

\* Receiving a message turns one under way into one a thread has.
LEMMA ReceiveStays ==
  ASSUME TypeOK, TypeOK', NEW j \in Ifaces, NEW l \in Rounds, NEW t \in Threads, Receive(j, l, t),
         NEW i \in Ifaces, round[i] # NoRound, OpenBound(i)
  PROVE  OpenBound(i)'
<1>0. PICK r \in Rounds : r = round[i] BY DEF TypeOK, RecordTypes
<1>1. /\ \A u \in Threads \ {t} : pc'[u] = pc[u] /\ job'[u] = job[u]
      /\ pc[t] = "idle" /\ pc'[t] = "started" /\ UNCHANGED <<sent, cnt, round>>
      /\ job'[t].iface = j /\ job'[t].label = l
  BY DEF Receive, TypeOK, DealTypes, tx, records
<1>2. /\ Flying(i, r)' \ {t} = Flying(i, r) \ {t} /\ Flying(i, r)' \in SUBSET Threads
      /\ Flying(i, r) \in SUBSET Threads /\ t \notin Flying(i, r)
      /\ Stale(i)' \ {t} = Stale(i) \ {t} /\ t \notin Stale(i) /\ t \notin Stale(i)'
  BY <1>1, OthersStay DEF Flying, Stale
<1>3. Stale(i)' = Stale(i) BY <1>2
<1>4. /\ air[i][r] \in Nat /\ air'[i][r] \in Nat /\ Cardinality(Flying(i, r)) \in Nat
      /\ Cardinality(Flying(i, r)') \in Nat
  BY <1>2, ThreadsCounted DEF TypeOK, TxTypes
<1>5. air'[i][r] + Cardinality(Flying(i, r)') = air[i][r] + Cardinality(Flying(i, r))
  <2>1. CASE i = j /\ r = l
    <3>1. air'[i][r] = air[i][r] - 1 BY <2>1 DEF Receive, TypeOK, TxTypes
    <3>2. t \in Flying(i, r)' BY <1>1, <2>1 DEF Flying
    <3>3. Cardinality(Flying(i, r)') = Cardinality(Flying(i, r)) + 1
      BY <1>2, <3>2, OneThread
    <3>4. QED BY <1>4, <3>1, <3>3
  <2>2. CASE ~(i = j /\ r = l)
    <3>1. air'[i][r] = air[i][r] BY <2>2 DEF Receive, TypeOK, TxTypes
    <3>2. t \notin Flying(i, r)' BY <1>1, <2>2 DEF Flying
    <3>3. Flying(i, r)' = Flying(i, r) BY <1>2, <3>2
    <3>4. QED BY <3>1, <3>3
  <2>3. QED BY <2>1, <2>2
<1>6. sent[i][r] \in Nat /\ cnt[i] \in Nat /\ Cardinality(Stale(i)) \in Nat /\ Cardinality(Threads) \in Nat
  <2>1. Stale(i) \in SUBSET Threads /\ Threads \in SUBSET Threads BY DEF Stale
  <2>2. QED BY <2>1, ThreadsCounted DEF TypeOK, TxTypes, RecordTypes
<1>7. cnt[i] + Cardinality(Stale(i)) + air[i][r] + Cardinality(Flying(i, r))
          <= sent[i][r] + Cardinality(Threads) - 1
  BY <1>0 DEF OpenBound
<1>8. cnt[i] + Cardinality(Stale(i)) + air'[i][r] + Cardinality(Flying(i, r)')
          <= sent[i][r] + Cardinality(Threads) - 1
  BY <1>4, <1>5, <1>6, <1>7
<1>9. round'[i] = r /\ Flying(i, round[i])' = Flying(i, r)' BY <1>0, <1>1 DEF Flying
<1>10. QED BY <1>1, <1>3, <1>8, <1>9 DEF OpenBound

\* Nothing is counted: threads give up their message, or messages are sent or
\* lost.
LEMMA NothingCounted ==
  ASSUME TypeOK, TypeOK', NEW i \in Ifaces, round[i] # NoRound, OpenBound(i),
         UNCHANGED <<cnt, round>>, Stale(i)' \subseteq Stale(i),
         \A r \in Rounds : Flying(i, r)' \subseteq Flying(i, r),
         \A r \in Rounds : air'[i][r] - sent'[i][r] <= air[i][r] - sent[i][r]
  PROVE  OpenBound(i)'
<1>0. PICK r \in Rounds : r = round[i] BY DEF TypeOK, RecordTypes
<1>1. /\ Stale(i) \in SUBSET Threads /\ Stale(i)' \in SUBSET Stale(i)
      /\ Flying(i, r) \in SUBSET Threads /\ Flying(i, r)' \in SUBSET Flying(i, r)
      /\ Stale(i)' \in SUBSET Threads /\ Flying(i, r)' \in SUBSET Threads
      /\ Threads \in SUBSET Threads
  BY DEF Stale, Flying
<1>2. /\ Cardinality(Stale(i)') <= Cardinality(Stale(i))
      /\ Cardinality(Flying(i, r)') <= Cardinality(Flying(i, r))
  BY <1>1, FewerThreads
<1>3. /\ Cardinality(Stale(i)) \in Nat /\ Cardinality(Stale(i)') \in Nat
      /\ Cardinality(Flying(i, r)) \in Nat /\ Cardinality(Flying(i, r)') \in Nat
      /\ Cardinality(Threads) \in Nat
  BY <1>1, ThreadsCounted
<1>4. /\ air[i][r] \in Nat /\ sent[i][r] \in Nat /\ cnt[i] \in Nat
      /\ air'[i][r] \in Nat /\ sent'[i][r] \in Nat
  BY DEF TypeOK, TxTypes, RecordTypes
<1>5. cnt[i] + Cardinality(Stale(i)) + air[i][r] + Cardinality(Flying(i, r))
          <= sent[i][r] + Cardinality(Threads) - 1
  BY <1>0 DEF OpenBound
<1>6. air'[i][r] - sent'[i][r] <= air[i][r] - sent[i][r]
  OBVIOUS
<1>7. cnt[i] + Cardinality(Stale(i)') + air'[i][r] + Cardinality(Flying(i, r)')
          <= sent'[i][r] + Cardinality(Threads) - 1
  BY <1>2, <1>3, <1>4, <1>5, <1>6
<1>8. round'[i] = r /\ Flying(i, round[i])' = Flying(i, r)' BY <1>0 DEF Flying
<1>9. QED BY <1>7, <1>8 DEF OpenBound

\* Only a recognised message closes a round.
PublisherIsExpected == \A t \in Threads : pc[t] = "published" => Expected(t)

LEMMA ExpectedCorrect == Spec => []PublisherIsExpected
<1>1. Init => PublisherIsExpected
  BY DEF Init, PublisherIsExpected
<1>2. TypeOK /\ PublisherIsExpected /\ [Next]_vars => PublisherIsExpected'
  <2> SUFFICES ASSUME TypeOK, PublisherIsExpected, [Next]_vars, NEW t \in Threads, pc'[t] = "published"
               PROVE  Expected(t)'
    BY DEF PublisherIsExpected
  <2>1. /\ pc[t] = "published" \/ Publish(t)
        /\ job'[t] = job[t]
    BY DEF Next, Deal, vars, Tick, Restart, PeerTick, PeerRestart, BeginTest, SendPackage,
           Lose, Receive, ReadClock, Lock, Reject, CountFirst, CountMore, Publish, StartRound,
           Unlock, TypeOK, DealTypes
  <2>2. Expected(t) BY <2>1 DEF PublisherIsExpected, Publish
  <2>3. QED BY <2>1, <2>2 DEF Expected
<1>3. QED BY <1>1, <1>2, TypeCorrect, PTL DEF Spec

\* The open round of an interface counts its own messages and one at most of
\* every other thread.
THEOREM OpenCorrect == Spec => []OpenInv
<1>1. Init => OpenInv
  BY DEF Init, OpenInv, NoRounds
<1>2. /\ TypeOK /\ TypeOK' /\ ClockInv /\ FlightInv /\ PublisherIsExpected /\ OpenInv /\ [Next]_vars
      => OpenInv'
  <2> SUFFICES ASSUME TypeOK, TypeOK', ClockInv, FlightInv, PublisherIsExpected, OpenInv, [Next]_vars,
                      NEW i \in Ifaces \ CanIfaces, round'[i] # NoRound
               PROVE  OpenBound(i)'
    BY DEF OpenInv, OpenBound
  <2>0. round[i] # NoRound => OpenBound(i) BY DEF OpenInv, OpenBound
  <2>1. CASE UNCHANGED <<air, sent, pc, job, cnt, round>>
    <3>1. Stale(i)' = Stale(i) /\ Flying(i, round[i])' = Flying(i, round[i]) BY <2>1 DEF Stale, Flying
    <3>2. QED BY <2>0, <2>1, <3>1 DEF OpenBound
  <2>2. CASE Restart
    BY <2>2 DEF Restart, NoRounds
  <2>3. ASSUME NEW j \in Ifaces, SendPackage(j) PROVE OpenBound(i)'
    <3>1. UNCHANGED <<cnt, round, pc, job>> BY <2>3 DEF SendPackage, records
    <3>2. Stale(i)' \subseteq Stale(i) /\ \A r \in Rounds : Flying(i, r)' \subseteq Flying(i, r)
      BY <3>1 DEF Stale, Flying
    <3>3. \A r \in Rounds : air'[i][r] - sent'[i][r] <= air[i][r] - sent[i][r]
      <4> SUFFICES ASSUME NEW r \in Rounds PROVE air'[i][r] - sent'[i][r] <= air[i][r] - sent[i][r]
        OBVIOUS
      <4>1. air'[i][r] - air[i][r] = sent'[i][r] - sent[i][r] /\ air'[i][r] \in Nat /\ sent'[i][r] \in Nat
        BY <2>3, PackageAdds
      <4>2. air[i][r] \in Nat /\ sent[i][r] \in Nat BY DEF TypeOK, TxTypes
      <4>3. QED BY <4>1, <4>2
    <3>4. QED BY <2>0, <3>1, <3>2, <3>3, NothingCounted
  <2>4. ASSUME NEW j \in Ifaces, NEW l \in Rounds, Lose(j, l) PROVE OpenBound(i)'
    <3>1. UNCHANGED <<cnt, round, pc, job, sent>> BY <2>4 DEF Lose, records, tx
    <3>2. Stale(i)' \subseteq Stale(i) /\ \A r \in Rounds : Flying(i, r)' \subseteq Flying(i, r)
      BY <3>1 DEF Stale, Flying
    <3>3. \A r \in Rounds : air'[i][r] - sent'[i][r] <= air[i][r] - sent[i][r]
      <4> SUFFICES ASSUME NEW r \in Rounds PROVE air'[i][r] - sent'[i][r] <= air[i][r] - sent[i][r]
        OBVIOUS
      <4>1. air'[i][r] = air[i][r] \/ air'[i][r] = air[i][r] - 1
        BY <2>4 DEF Lose, TypeOK, TxTypes
      <4>2. air[i][r] \in Nat /\ sent[i][r] \in Nat BY DEF TypeOK, TxTypes
      <4>3. QED BY <3>1, <4>1, <4>2
    <3>4. QED BY <2>0, <3>1, <3>2, <3>3, NothingCounted
  <2>5. ASSUME NEW j \in Ifaces, NEW l \in Rounds, NEW t \in Threads, Receive(j, l, t)
        PROVE  OpenBound(i)'
    <3>1. round' = round BY <2>5 DEF Receive, records
    <3>2. QED BY <2>0, <2>5, <3>1, ReceiveStays
  <2>6. ASSUME NEW t \in Threads, Deal(t), job[t].iface # i PROVE OpenBound(i)'
    <3>1. round'[i] = round[i]
      BY <2>6 DEF Deal, ReadClock, Lock, Reject, CountFirst, CountMore, Publish, StartRound,
                  TypeOK, DealTypes, RecordTypes, records
    <3>2. QED BY <2>0, <2>6, <3>1, ElsewhereStays
  <2>7. ASSUME NEW t \in Threads, ReadClock(t) PROVE OpenBound(i)'
    <3>1. round' = round BY <2>7 DEF ReadClock, records
    <3>2. QED BY <2>0, <2>7, <3>1, ReaderIsNotStale
  <2>8. ASSUME NEW t \in Threads, Lock(t) \/ Reject(t) \/ Publish(t) PROVE OpenBound(i)'
    <3>1. UNCHANGED <<cnt, round, job, air, sent>>
      BY <2>8 DEF Lock, Reject, Publish, records, tx
    <3>2. /\ \A u \in Threads \ {t} : pc'[u] = pc[u]
          /\ pc[t] \in {"ready", "held"}
      BY <2>8 DEF Lock, Reject, Publish, Unlock, TypeOK, DealTypes
    <3>3. Stale(i)' \subseteq Stale(i) /\ \A r \in Rounds : Flying(i, r)' \subseteq Flying(i, r)
      BY <3>1, <3>2 DEF Stale, Flying
    <3>4. \A r \in Rounds : air'[i][r] - sent'[i][r] <= air[i][r] - sent[i][r]
      <4>1. \A r \in Rounds : air[i][r] \in Nat /\ sent[i][r] \in Nat BY DEF TypeOK, TxTypes
      <4>2. QED BY <3>1, <4>1
    <3>5. QED BY <2>0, <3>1, <3>3, <3>4, NothingCounted
  <2>9. ASSUME NEW t \in Threads, CountFirst(t) \/ StartRound(t), job[t].iface = i
        PROVE  OpenBound(i)'
    <3>1. pc[t] \in Held /\ job[t].round \in Rounds
      BY <2>9 DEF CountFirst, StartRound, ClockInv, Held
    <3>2. Expected(t)
      BY <2>9 DEF CountFirst, StartRound, PublisherIsExpected
    <3>3. QED BY <2>9, <3>1, <3>2, BoundOpens
  <2>10. ASSUME NEW t \in Threads, CountMore(t), job[t].iface = i PROVE OpenBound(i)'
    <3>1. job[t].round \in Rounds /\ round[i] # NoRound
      BY <2>10 DEF CountMore, ClockInv, Held
    <3>2. QED BY <2>0, <2>10, <3>1, BoundCounts
  <2>11. QED
    BY <2>1, <2>2, <2>3, <2>4, <2>5, <2>6, <2>7, <2>8, <2>9, <2>10
    DEF Next, Deal, vars, Tick, PeerTick, PeerRestart, BeginTest, tx, records
<1>3. QED
  BY <1>1, <1>2, TypeCorrect, ClockCorrect, FlightCorrect, ExpectedCorrect, PTL DEF Spec

\* On a link whose messages carry their round a published count exceeds the
\* number of packages by fewer than there are threads: by the stale messages
\* that waited for the mutex when the round was opened, and by nothing else,
\* whatever is lost and whichever side restarts.
THEOREM OvercountCorrect == Spec => []OvercountBoundedByThreads
<1>0. Cardinality(Threads) \in Nat \ {0}
  BY RoundCounterAssumption, FS_CardinalityType, FS_EmptySet
<1>1. Init => OvercountBoundedByThreads
  <2>1. 0 < Packages + Cardinality(Threads)
    BY <1>0, RoundCounterAssumption
  <2>2. Init => \A i \in Ifaces : result[i].rx = 0
    BY DEF Init, NoResult
  <2>3. QED BY <2>1, <2>2 DEF OvercountBoundedByThreads
<1>2. /\ TypeOK /\ OpenInv /\ AtMostPackagesSent /\ OvercountBoundedByThreads /\ [Next]_vars
      => OvercountBoundedByThreads'
  <2> SUFFICES ASSUME TypeOK, OpenInv, AtMostPackagesSent, OvercountBoundedByThreads, [Next]_vars,
                      NEW i \in Ifaces \ CanIfaces
               PROVE  result'[i].rx < Packages + Cardinality(Threads)
    BY DEF OvercountBoundedByThreads
  <2>1. CASE result'[i] = result[i]
    BY <2>1 DEF OvercountBoundedByThreads
  <2>2. CASE Restart
    BY <2>2, <1>0, RoundCounterAssumption DEF Restart, NoResult
  <2>3. ASSUME NEW t \in Threads, Publish(t), job[t].iface = i
        PROVE  result'[i].rx < Packages + Cardinality(Threads)
    <3>1. result'[i].rx = cnt[i] /\ round[i] # NoRound
      BY <2>3 DEF Publish, TypeOK, RecordTypes
    <3>2. PICK r \in Rounds : r = round[i] BY <3>1 DEF TypeOK, RecordTypes
    <3>3. cnt[i] + Cardinality(Stale(i)) + air[i][r] + Cardinality(Flying(i, r))
              <= sent[i][r] + Cardinality(Threads) - 1
      BY <3>1, <3>2 DEF OpenInv
    <3>4. Stale(i) \in SUBSET Threads /\ Flying(i, r) \in SUBSET Threads BY DEF Stale, Flying
    <3>5. /\ cnt[i] \in Nat /\ air[i][r] \in Nat /\ sent[i][r] \in Nat /\ Packages \in Nat
          /\ Cardinality(Stale(i)) \in Nat /\ Cardinality(Flying(i, r)) \in Nat
      BY <3>4, ThreadsCounted, RoundCounterAssumption DEF TypeOK, TxTypes, RecordTypes
    <3>6. sent[i][r] <= Packages BY DEF AtMostPackagesSent
    <3>7. QED BY <1>0, <3>1, <3>3, <3>5, <3>6
  <2>4. QED
    BY <2>1, <2>2, <2>3
    DEF Next, Deal, vars, records, Tick, PeerTick, PeerRestart, BeginTest, SendPackage, Lose,
        Receive, ReadClock, Lock, Reject, CountFirst, CountMore, Publish, StartRound,
        TypeOK, DealTypes, RecordTypes
<1>3. QED
  BY <1>1, <1>2, TypeCorrect, OpenCorrect, PackagesBounded, PTL DEF Spec

=============================================================================
