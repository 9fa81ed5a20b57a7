-------------------------- MODULE CanGatewayProofs --------------------------
(***************************************************************************)
(* Theorems about CanGateway, for every table of entries, every size of    *)
(* the queues and sockets, and any number of frames and failures.          *)
(***************************************************************************)
EXTENDS CanGateway, TLAPS

-----------------------------------------------------------------------------
(* The tables of buses.                                                    *)

\* The listener of a com reads the array that the com's server task fills, no two
\* coms share a bus, and each com has some row in the table of responses.
LEMMA Tables ==
    /\ ServerBus \in [Coms -> Buses]
    /\ DataBus = ServerBus
    /\ \A c, d \in Coms : ServerBus[c] = ServerBus[d] => c = d
    /\ CfgSem \in [Coms -> Buses]
    /\ CfgArray \in [Coms -> Buses]
<1>1. ServerBus \in [Coms -> Buses]
  BY DEF ServerBus, Coms, Buses
<1>2. DataBus = ServerBus
  BY DEF ServerBus, DataBus
<1>3. \A c, d \in Coms : ServerBus[c] = ServerBus[d] => c = d
  BY DEF ServerBus, Coms
<1>4. CfgSem \in [Coms -> Buses]
  BY DEF CfgSem, Coms, Buses
<1>5. CfgArray \in [Coms -> Buses]
  BY DEF CfgArray, Coms, Buses
<1> QED
  BY <1>1, <1>2, <1>3, <1>4, <1>5

-----------------------------------------------------------------------------
(* Types.  That a semaphore never exceeds one is part of Exclusive below.  *)

IniTypes ==
    /\ table \in Configs /\ ini \in IniPcs /\ entry \in 1..(Entries + 1)
    /\ flag \subseteq 1..Entries /\ accepted \subseteq 1..Entries
SlotTypes ==
    /\ sem \in [Buses -> Nat] /\ slot \in [Buses -> Slots]
RecvTypes ==
    /\ callback \subseteq Buses /\ server \in [Buses -> ServerPcs]
    /\ hand \in [Buses -> Frames \cup {NoFrame}] /\ socket \in [Buses -> Seq(Frames)]
SendTypes ==
    /\ queueOk \subseteq Coms /\ queue \in [Coms -> Seq({"cfg", "data"})]
    /\ client \in [Coms -> {"none", "up", "dead"}] /\ sent \in [Coms -> Nat]
McuTypes ==
    /\ mcu \in [Coms -> {"off", "asked", "on"}] /\ made \in [Coms -> Nat]
ThreadTypes ==
    /\ thread \in [1..Entries -> ThreadPcs] /\ copy \in [0..Entries -> Slots]
    /\ taken \in [Coms -> Nat] /\ passed \in [Coms -> 0..MaxSends]
FaultTypes == faults \in 0..MaxFaults

Types == IniTypes /\ SlotTypes /\ RecvTypes /\ SendTypes /\ McuTypes /\ ThreadTypes
           /\ FaultTypes

\* Where the initialiser and the threads can be: the initialiser works on an entry
\* with valid parameters whose channel is not flagged; a channel is flagged for all
\* its entries; threads run only for flagged entries, after the last one.
Busy == {"sem", "server", "callback", "queue", "client", "request",
         "wait", "head", "tail", "clear"}
Loop == {"wait", "head", "tail", "clear"}

Control ==
    /\ ini \in Busy \cup {"check"} => entry \in 1..Entries
    /\ ini \in Busy => entry \notin flag /\ Valid(entry)
    /\ ini \in Loop => ComHere \notin queueOk
    /\ \A j \in flag : Com(j) \in Coms
    /\ \A j \in flag : \A k \in 1..Entries : Com(k) = Com(j) => k \in flag
    /\ accepted \subseteq flag
    /\ \A i \in 1..Entries : thread[i] # "off" => i \in accepted /\ ini = "done"

-----------------------------------------------------------------------------
(* The semaphores.                                                         *)

\* The semaphore of a bus has been initialised.
Ready(b) == \/ \E j \in flag : ServerBus[Com(j)] = b
            \/ ini \in Busy \ {"sem"} /\ BusHere = b

\* A semaphore is free and nobody is between its wait and its post, or exactly one
\* is; before it is initialised, it is zero and nobody is.
NobodyHolds(b) == ~Held(b)
ServerOnly(b)  == /\ server[b] \in Inside /\ ~IniHolds(b)
                  /\ \A i \in 1..Entries : ~ListenerHolds(i, b)
ListenerOnly(b) == /\ server[b] \notin Inside /\ ~IniHolds(b)
                   /\ \E i \in 1..Entries :
                        \A j \in 1..Entries : ListenerHolds(j, b) <=> j = i
IniOnly(b)     == /\ server[b] \notin Inside /\ IniHolds(b)
                  /\ \A i \in 1..Entries : ~ListenerHolds(i, b)
Exclusive(b) ==
    \/ sem[b] = 0 /\ ~Ready(b) /\ NobodyHolds(b)
    \/ sem[b] = 1 /\ Ready(b) /\ NobodyHolds(b)
    \/ sem[b] = 0 /\ Ready(b) /\ (ServerOnly(b) \/ ListenerOnly(b) \/ IniOnly(b))

\* A server task is started once, after the semaphore.
Unstarted(b) ==
    ~Ready(b) \/ (ini = "server" /\ BusHere = b) => server[b] = "none"

-----------------------------------------------------------------------------
(* The way of a frame: socket, hand of the server task, array, copy.       *)

Holding == {"wait", "head", "tail"}

\* All frames on the way from a bus are frames of its com.
OwnFrames(c) ==
    LET b == ServerBus[c] IN
    /\ \A k \in DOMAIN socket[b] : socket[b][k].com = c
    /\ server[b] \in Holding => hand[b] \in Frames /\ hand[b].com = c
    /\ slot[b].head # NoFrame => slot[b].head.com = c

\* They are in the order of their numbers, all newer than what was taken.
Ordered(c) ==
    LET b == ServerBus[c]
        q == socket[b]
    IN /\ taken[c] <= made[c] /\ slot[b].head.n <= made[c]
       /\ slot[b].head # NoFrame => taken[c] < slot[b].head.n
       /\ server[b] \in Holding => taken[c] < hand[b].n /\ hand[b].n <= made[c]
       /\ server[b] \in {"wait", "head"} => slot[b].head.n < hand[b].n
       /\ \A k \in DOMAIN q :
            /\ taken[c] < q[k].n /\ slot[b].head.n < q[k].n /\ q[k].n <= made[c]
            /\ server[b] \in Holding => hand[b].n < q[k].n
            /\ \A l \in DOMAIN q : k < l => q[k].n < q[l].n

\* An array is whole unless its server task is half way through it, and does not
\* change under a listener that copies it.
Whole(c) ==
    LET b == ServerBus[c] IN
    /\ server[b] # "tail" => slot[b].head = slot[b].tail
    /\ server[b] = "tail" => slot[b].head = hand[b]
    /\ \A i \in 1..Entries : Com(i) = c =>
         /\ thread[i] = "tail" => copy[i].head = slot[b].head
         /\ thread[i] = "clear" => copy[i] = slot[b]

Pipeline(c) ==
    ServerBus[c] \in GuardedBuses => OwnFrames(c) /\ Ordered(c) /\ Whole(c)

-----------------------------------------------------------------------------
(* The frames to be sent.                                                  *)

Flagged(c) == \E j \in flag : Com(j) = c

\* The configuration request, while it is queued.
Request(c) == IF queue[c] # << >> /\ queue[c][1] = "cfg" THEN 1 ELSE 0

\* What the client task lost.
Dead(c) == IF client[c] = "dead" THEN 1 ELSE 0

\* Nothing is queued before the request, which stays in front; after it, the frames
\* passed have been sent, are in the queue, or went with the client task.
Sends(c) ==
    /\ Len(queue[c]) <= QueueMax
    /\ ~Flagged(c) \/ c \notin queueOk =>
         passed[c] = 0 /\ queue[c] = << >> /\ client[c] # "dead"
    /\ Flagged(c) /\ c \in queueOk =>
         /\ \A k \in 2..Len(queue[c]) : queue[c][k] = "data"
         /\ passed[c] + Request(c) <= sent[c] + Len(queue[c]) + Dead(c)

IInv ==
    /\ Types /\ Control
    /\ \A b \in Buses : Exclusive(b) /\ Unstarted(b)
    /\ \A c \in Coms : Pipeline(c)
    /\ \A c \in Coms : Sends(c)

-----------------------------------------------------------------------------
LEMMA TypesInit == Init => Types /\ Control
<1> SUFFICES ASSUME Init PROVE Types /\ Control
  OBVIOUS
<1>1. IniTypes /\ FaultTypes
  BY CanGatewayAssumption DEF Init, IniTypes, FaultTypes, IniPcs
<1>2. SlotTypes /\ RecvTypes
  BY DEF Init, SlotTypes, RecvTypes, Slots, Cleared, ServerPcs
<1>3. SendTypes /\ McuTypes
  BY DEF Init, SendTypes, McuTypes
<1>4. ThreadTypes
  BY CanGatewayAssumption DEF Init, ThreadTypes, ThreadPcs, Slots, Cleared
<1>5. Control
  BY CanGatewayAssumption DEF Init, Control, Busy, Loop
<1> QED
  BY <1>1, <1>2, <1>3, <1>4, <1>5 DEF Types

\* An entry's thread that runs, and the initialiser at work, have a valid com.
LEMMA RunningComs ==
    ASSUME Types, Control
    PROVE  /\ ini \in Busy => ComHere \in Coms /\ entry \in 1..Entries
           /\ ini \in Busy \cup {"check"} => entry + 1 \in 1..(Entries + 1)
           /\ \A i \in 1..Entries : thread[i] # "off" =>
                Com(i) \in Coms /\ i \in flag /\ ini = "done"
<1>1. ini \in Busy => ComHere \in Coms /\ entry \in 1..Entries
  BY DEF Control, Valid, ComHere
<1>2. ini \in Busy \cup {"check"} => entry + 1 \in 1..(Entries + 1)
  <2>1. Entries \in Nat
    BY CanGatewayAssumption
  <2>2. ini \in Busy \cup {"check"} => entry \in 1..Entries
    BY DEF Control
  <2> QED
    BY <2>1, <2>2
<1>3. \A i \in 1..Entries : thread[i] # "off" =>
          Com(i) \in Coms /\ i \in flag /\ ini = "done"
  BY DEF Control
<1> QED
  BY <1>1, <1>2, <1>3

\* The steps on a semaphore and on an array keep their types.
LEMMA SlotSteps ==
    ASSUME SlotTypes, NEW b \in Buses
    PROVE  /\ TakeSem(b) => sem' \in [Buses -> Nat]
           /\ PostSem(b) => sem' \in [Buses -> Nat]
           /\ Clear(b) => slot' \in [Buses -> Slots]
<1>1. sem \in [Buses -> Nat] /\ sem[b] \in Nat
  BY DEF SlotTypes
<1>2. ASSUME TakeSem(b) PROVE sem' \in [Buses -> Nat]
  <2>1. sem[b] - 1 \in Nat
    BY <1>1, <1>2 DEF TakeSem
  <2> QED
    BY <1>1, <1>2, <2>1 DEF TakeSem
<1>3. ASSUME PostSem(b) PROVE sem' \in [Buses -> Nat]
  BY <1>1, <1>3 DEF PostSem
<1>4. ASSUME Clear(b) PROVE slot' \in [Buses -> Slots]
  <2>1. Cleared \in Slots
    BY DEF Cleared, Slots
  <2> QED
    BY <1>4, <2>1 DEF Clear, SlotTypes
<1> QED
  BY <1>2, <1>3, <1>4

\* The sequences stay sequences of what they hold.
LEMMA Sequences ==
    ASSUME NEW S, NEW q \in Seq(S)
    PROVE  /\ \A x \in S : Append(q, x) \in Seq(S) /\ Len(Append(q, x)) = Len(q) + 1
           /\ q # << >> => /\ Head(q) \in S /\ Tail(q) \in Seq(S)
                          /\ Len(Tail(q)) = Len(q) - 1
  OBVIOUS

LEMMA TypesNext ==
    ASSUME Types, Control, Next
    PROVE  Types'
<1>1. CASE AlreadyInitialised
  <2>1. IniTypes'
    BY <1>1, CanGatewayAssumption DEF AlreadyInitialised, NextEntry, IniPcs, Types,
         IniTypes, iniVars
  <2>2. SlotTypes' /\ RecvTypes' /\ SendTypes' /\ McuTypes'
         /\ ThreadTypes' /\ FaultTypes'
    BY <1>1 DEF AlreadyInitialised, Types, SlotTypes, RecvTypes, SendTypes,
         McuTypes, ThreadTypes, FaultTypes, slotVars, recvVars, sendVars, mcuVars,
         threadVars
  <2> QED
    BY <2>1, <2>2 DEF Types
<1>2. CASE RefuseEntry
  <2>1. IniTypes'
    BY <1>2, RunningComs DEF RefuseEntry, NextEntry, IniPcs, Types, IniTypes
  <2>2. SlotTypes' /\ RecvTypes' /\ SendTypes' /\ McuTypes'
         /\ ThreadTypes' /\ FaultTypes'
    BY <1>2 DEF RefuseEntry, Types, SlotTypes, RecvTypes, SendTypes, McuTypes,
         ThreadTypes, FaultTypes, slotVars, recvVars, sendVars, mcuVars, threadVars
  <2> QED
    BY <2>1, <2>2 DEF Types
<1>3. CASE AcceptParameters
  <2>1. IniTypes'
    BY <1>3 DEF AcceptParameters, Goto, IniPcs, Types, IniTypes, iniVars
  <2>2. SlotTypes' /\ RecvTypes' /\ SendTypes' /\ McuTypes'
         /\ ThreadTypes' /\ FaultTypes'
    BY <1>3 DEF AcceptParameters, Types, SlotTypes, RecvTypes, SendTypes, McuTypes,
         ThreadTypes, FaultTypes, slotVars, recvVars, sendVars, mcuVars, threadVars
  <2> QED
    BY <2>1, <2>2 DEF Types
<1>4. CASE InitSemaphore
  <2>1. IniTypes'
    BY <1>4 DEF InitSemaphore, Goto, IniPcs, Types, IniTypes, iniVars
  <2>2. SlotTypes'
    BY <1>4, RunningComs, Tables DEF InitSemaphore, BusHere, Busy, Types, SlotTypes,
         slotVars
  <2>3. RecvTypes' /\ SendTypes' /\ McuTypes' /\ ThreadTypes'
         /\ FaultTypes'
    BY <1>4 DEF InitSemaphore, Types, RecvTypes, SendTypes, McuTypes, ThreadTypes,
         FaultTypes, recvVars, sendVars, mcuVars, threadVars
  <2> QED
    BY <2>1, <2>2, <2>3 DEF Types
<1>5. CASE SpawnServer
  <2>1. IniTypes'
    BY <1>5 DEF SpawnServer, Goto, IniPcs, Types, IniTypes, iniVars
  <2>2. RecvTypes'
    BY <1>5, RunningComs, Tables DEF SpawnServer, BusHere, Busy, ServerPcs, Types,
         RecvTypes, recvVars
  <2>3. FaultTypes'
    BY <1>5, CanGatewayAssumption DEF SpawnServer, Fault, Types, FaultTypes
  <2>4. SlotTypes' /\ SendTypes' /\ McuTypes' /\ ThreadTypes'
    BY <1>5 DEF SpawnServer, Types, SlotTypes, SendTypes, McuTypes, ThreadTypes,
         slotVars, sendVars, mcuVars, threadVars
  <2> QED
    BY <2>1, <2>2, <2>3, <2>4 DEF Types
<1>6. CASE SetCallback
  <2>1. IniTypes'
    BY <1>6 DEF SetCallback, Goto, IniPcs, Types, IniTypes, iniVars
  <2>2. RecvTypes'
    BY <1>6, RunningComs, Tables DEF SetCallback, BusHere, Busy, Types, RecvTypes,
         recvVars
  <2>3. SlotTypes' /\ SendTypes' /\ McuTypes' /\ ThreadTypes'
         /\ FaultTypes'
    BY <1>6 DEF SetCallback, Types, SlotTypes, SendTypes, McuTypes, ThreadTypes,
         FaultTypes, slotVars, sendVars, mcuVars, threadVars
  <2> QED
    BY <2>1, <2>2, <2>3 DEF Types
<1>7. CASE CreateQueue
  <2>1. IniTypes'
    BY <1>7 DEF CreateQueue, Goto, IniPcs, Types, IniTypes, iniVars
  <2>2. SendTypes'
    BY <1>7, RunningComs DEF CreateQueue, Busy, Types, SendTypes, sendVars
  <2>3. FaultTypes'
    BY <1>7, CanGatewayAssumption DEF CreateQueue, Fault, Types, FaultTypes
  <2>4. SlotTypes' /\ RecvTypes' /\ McuTypes' /\ ThreadTypes'
    BY <1>7 DEF CreateQueue, Types, SlotTypes, RecvTypes, McuTypes, ThreadTypes,
         slotVars, recvVars, mcuVars, threadVars
  <2> QED
    BY <2>1, <2>2, <2>3, <2>4 DEF Types
<1>8. CASE SpawnClient
  <2>1. IniTypes'
    BY <1>8 DEF SpawnClient, Goto, IniPcs, Types, IniTypes, iniVars
  <2>2. SendTypes'
    BY <1>8, RunningComs DEF SpawnClient, Busy, Types, SendTypes, sendVars
  <2>3. FaultTypes'
    BY <1>8, CanGatewayAssumption DEF SpawnClient, Fault, Types, FaultTypes
  <2>4. SlotTypes' /\ RecvTypes' /\ McuTypes' /\ ThreadTypes'
    BY <1>8 DEF SpawnClient, Types, SlotTypes, RecvTypes, McuTypes, ThreadTypes,
         slotVars, recvVars, mcuVars, threadVars
  <2> QED
    BY <2>1, <2>2, <2>3, <2>4 DEF Types
<1>9. CASE RequestConfiguration
  <2>1. IniTypes'
    BY <1>9, RunningComs DEF RequestConfiguration, Goto, FinishEntry, NextEntry,
         IniPcs, Busy, Types, IniTypes
  <2>2. SendTypes'
    <3>1. ComHere \in Coms
      BY <1>9, RunningComs DEF RequestConfiguration, Busy
    <3>2. Append(queue[ComHere], "cfg") \in Seq({"cfg", "data"})
      BY <3>1, Sequences DEF Types, SendTypes
    <3> QED
      BY <1>9, <3>1, <3>2 DEF RequestConfiguration, Types, SendTypes
  <2>3. SlotTypes' /\ RecvTypes' /\ McuTypes' /\ ThreadTypes'
         /\ FaultTypes'
    BY <1>9 DEF RequestConfiguration, Types, SlotTypes, RecvTypes, McuTypes,
         ThreadTypes, FaultTypes, slotVars, recvVars, mcuVars, threadVars
  <2> QED
    BY <2>1, <2>2, <2>3 DEF Types
<1>10. CASE CfgWait
  <2>1. IniTypes'
    BY <1>10 DEF CfgWait, Goto, IniPcs, Types, IniTypes, iniVars
  <2>2. SlotTypes'
    <3>1. CfgSem[ComHere] \in Buses
      BY <1>10, RunningComs, Tables DEF CfgWait, Busy
    <3> QED
      BY <1>10, <3>1, SlotSteps DEF CfgWait, Types, SlotTypes
  <2>3. RecvTypes' /\ SendTypes' /\ McuTypes' /\ ThreadTypes'
         /\ FaultTypes'
    BY <1>10 DEF CfgWait, Types, RecvTypes, SendTypes, McuTypes, ThreadTypes,
         FaultTypes, recvVars, sendVars, mcuVars, threadVars
  <2> QED
    BY <2>1, <2>2, <2>3 DEF Types
<1>11. CASE CfgHead
  <2>1. IniTypes'
    BY <1>11 DEF CfgHead, Goto, IniPcs, Types, IniTypes, iniVars
  <2>2. ThreadTypes'
    BY <1>11, RunningComs, Tables, CanGatewayAssumption DEF CfgHead, CopyHead,
         Slots, Busy, SlotTypes, Types, ThreadTypes, threadVars, slotVars
  <2>3. SlotTypes' /\ RecvTypes' /\ SendTypes' /\ McuTypes'
         /\ FaultTypes'
    BY <1>11 DEF CfgHead, Types, SlotTypes, RecvTypes, SendTypes, McuTypes,
         FaultTypes, slotVars, recvVars, sendVars, mcuVars
  <2> QED
    BY <2>1, <2>2, <2>3 DEF Types
<1>12. CASE CfgTail
  <2>1. IniTypes'
    BY <1>12 DEF CfgTail, Goto, IniPcs, Types, IniTypes, iniVars
  <2>2. ThreadTypes'
    BY <1>12, RunningComs, Tables, CanGatewayAssumption DEF CfgTail, CopyTail,
         Slots, Busy, SlotTypes, Types, ThreadTypes, threadVars, slotVars
  <2>3. SlotTypes' /\ RecvTypes' /\ SendTypes' /\ McuTypes'
         /\ FaultTypes'
    BY <1>12 DEF CfgTail, Types, SlotTypes, RecvTypes, SendTypes, McuTypes,
         FaultTypes, slotVars, recvVars, sendVars, mcuVars
  <2> QED
    BY <2>1, <2>2, <2>3 DEF Types
<1>13. CASE CfgClear
  <2>1. IniTypes'
    BY <1>13, RunningComs DEF CfgClear, Goto, FinishEntry, NextEntry, IniPcs, Busy,
         Types, IniTypes
  <2>2. SlotTypes'
    <3>1. CfgSem[ComHere] \in Buses /\ CfgArray[ComHere] \in Buses
      BY <1>13, RunningComs, Tables DEF CfgClear, Busy
    <3> QED
      BY <1>13, <3>1, SlotSteps DEF CfgClear, Types, SlotTypes
  <2>3. ThreadTypes'
    BY <1>13 DEF CfgClear, Slots, Cleared, Types, ThreadTypes, threadVars
  <2>4. RecvTypes' /\ SendTypes' /\ McuTypes' /\ FaultTypes'
    BY <1>13 DEF CfgClear, Types, RecvTypes, SendTypes, McuTypes, FaultTypes,
         recvVars, sendVars, mcuVars
  <2> QED
    BY <2>1, <2>2, <2>3, <2>4 DEF Types
<1>14. CASE StartThreads
  <2>1. IniTypes'
    BY <1>14 DEF StartThreads, Goto, IniPcs, Types, IniTypes, iniVars
  <2>2. ThreadTypes'
    BY <1>14 DEF StartThreads, ThreadPcs, Types, ThreadTypes, threadVars
  <2>3. SlotTypes' /\ RecvTypes' /\ SendTypes' /\ McuTypes'
         /\ FaultTypes'
    BY <1>14 DEF StartThreads, Types, SlotTypes, RecvTypes, SendTypes, McuTypes,
         FaultTypes, slotVars, recvVars, sendVars, mcuVars
  <2> QED
    BY <2>1, <2>2, <2>3 DEF Types
<1>15. ASSUME NEW b \in Buses, Bind(b) PROVE Types'
  <2>1. RecvTypes'
    BY <1>15 DEF Bind, ServerGoto, ServerPcs, Types, RecvTypes, recvVars
  <2>2. FaultTypes'
    BY <1>15, CanGatewayAssumption DEF Bind, Fault, Types, FaultTypes
  <2>3. IniTypes' /\ SlotTypes' /\ SendTypes' /\ McuTypes'
         /\ ThreadTypes'
    BY <1>15 DEF Bind, Types, IniTypes, SlotTypes, SendTypes, McuTypes, ThreadTypes,
         iniVars, slotVars, sendVars, mcuVars, threadVars
  <2> QED
    BY <2>1, <2>2, <2>3 DEF Types
<1>16. ASSUME NEW b \in Buses, RecvFails(b) PROVE Types'
  <2>1. RecvTypes'
    BY <1>16 DEF RecvFails, ServerGoto, ServerPcs, Types, RecvTypes, recvVars
  <2>2. FaultTypes'
    BY <1>16, CanGatewayAssumption DEF RecvFails, Fault, Types, FaultTypes
  <2>3. IniTypes' /\ SlotTypes' /\ SendTypes' /\ McuTypes'
         /\ ThreadTypes'
    BY <1>16 DEF RecvFails, Types, IniTypes, SlotTypes, SendTypes, McuTypes,
         ThreadTypes, iniVars, slotVars, sendVars, mcuVars, threadVars
  <2> QED
    BY <2>1, <2>2, <2>3 DEF Types
<1>17. ASSUME NEW b \in Buses, Recv(b) PROVE Types'
  <2>1. RecvTypes'
    <3>1. Head(socket[b]) \in Frames /\ Tail(socket[b]) \in Seq(Frames)
      BY <1>17, Sequences DEF Recv, Types, RecvTypes
    <3> QED
      BY <1>17, <3>1 DEF Recv, ServerGoto, ServerPcs, Types, RecvTypes
  <2>2. IniTypes' /\ SlotTypes' /\ SendTypes' /\ McuTypes'
         /\ ThreadTypes' /\ FaultTypes'
    BY <1>17 DEF Recv, Types, IniTypes, SlotTypes, SendTypes, McuTypes, ThreadTypes,
         FaultTypes, iniVars, slotVars, sendVars, mcuVars, threadVars
  <2> QED
    BY <2>1, <2>2 DEF Types
<1>18. ASSUME NEW b \in Buses, CallbackWait(b) PROVE Types'
  <2>1. RecvTypes'
    BY <1>18 DEF CallbackWait, ServerGoto, ServerPcs, Types, RecvTypes, recvVars
  <2>2. SlotTypes'
    BY <1>18 DEF CallbackWait, TakeSem, Types, SlotTypes, slotVars
  <2>3. IniTypes' /\ SendTypes' /\ McuTypes' /\ ThreadTypes'
         /\ FaultTypes'
    BY <1>18 DEF CallbackWait, Types, IniTypes, SendTypes, McuTypes, ThreadTypes,
         FaultTypes, iniVars, sendVars, mcuVars, threadVars
  <2> QED
    BY <2>1, <2>2, <2>3 DEF Types
<1>19. ASSUME NEW b \in Buses, CallbackHead(b) PROVE Types'
  <2>1. RecvTypes'
    BY <1>19 DEF CallbackHead, ServerGoto, ServerPcs, Types, RecvTypes, recvVars
  <2>2. SlotTypes'
    BY <1>19 DEF CallbackHead, RecvTypes, Slots, Types, SlotTypes, slotVars
  <2>3. IniTypes' /\ SendTypes' /\ McuTypes' /\ ThreadTypes'
         /\ FaultTypes'
    BY <1>19 DEF CallbackHead, Types, IniTypes, SendTypes, McuTypes, ThreadTypes,
         FaultTypes, iniVars, sendVars, mcuVars, threadVars
  <2> QED
    BY <2>1, <2>2, <2>3 DEF Types
<1>20. ASSUME NEW b \in Buses, CallbackTail(b) PROVE Types'
  <2>1. RecvTypes'
    BY <1>20 DEF CallbackTail, ServerGoto, ServerPcs, Types, RecvTypes, recvVars
  <2>2. SlotTypes'
    <3>1. sem' \in [Buses -> Nat]
      BY <1>20, SlotSteps DEF CallbackTail, Types
    <3>2. slot' \in [Buses -> Slots]
      BY <1>20 DEF CallbackTail, Slots, Types, SlotTypes, RecvTypes
    <3> QED
      BY <3>1, <3>2 DEF SlotTypes
  <2>3. IniTypes' /\ SendTypes' /\ McuTypes' /\ ThreadTypes'
         /\ FaultTypes'
    BY <1>20 DEF CallbackTail, Types, IniTypes, SendTypes, McuTypes, ThreadTypes,
         FaultTypes, iniVars, sendVars, mcuVars, threadVars
  <2> QED
    BY <2>1, <2>2, <2>3 DEF Types
<1>21. ASSUME NEW i \in 1..Entries, ListenWait(i) PROVE Types'
  <2>1. ThreadTypes'
    BY <1>21 DEF ListenWait, ThreadGoto, ThreadPcs, Types, ThreadTypes, threadVars
  <2>2. SlotTypes'
    <3>1. DataBus[Com(i)] \in Buses
      BY <1>21, RunningComs, Tables DEF ListenWait
    <3> QED
      BY <1>21, <3>1, SlotSteps DEF ListenWait, Types, SlotTypes
  <2>3. IniTypes' /\ RecvTypes' /\ SendTypes' /\ McuTypes'
         /\ FaultTypes'
    BY <1>21 DEF ListenWait, Types, IniTypes, RecvTypes, SendTypes, McuTypes,
         FaultTypes, iniVars, recvVars, sendVars, mcuVars
  <2> QED
    BY <2>1, <2>2, <2>3 DEF Types
<1>22. ASSUME NEW i \in 1..Entries, ListenHead(i) PROVE Types'
  <2>1. ThreadTypes'
    BY <1>22, RunningComs, Tables DEF ListenHead, ThreadGoto, ThreadPcs, CopyHead,
         Slots, SlotTypes, Types, ThreadTypes, threadVars, slotVars
  <2>2. IniTypes' /\ SlotTypes' /\ RecvTypes' /\ SendTypes'
         /\ McuTypes' /\ FaultTypes'
    BY <1>22 DEF ListenHead, Types, IniTypes, SlotTypes, RecvTypes, SendTypes,
         McuTypes, FaultTypes, iniVars, slotVars, recvVars, sendVars, mcuVars
  <2> QED
    BY <2>1, <2>2 DEF Types
<1>23. ASSUME NEW i \in 1..Entries, ListenTail(i) PROVE Types'
  <2>1. ThreadTypes'
    BY <1>23, RunningComs, Tables DEF ListenTail, ThreadGoto, ThreadPcs, CopyTail,
         Slots, SlotTypes, Types, ThreadTypes, threadVars, slotVars
  <2>2. IniTypes' /\ SlotTypes' /\ RecvTypes' /\ SendTypes'
         /\ McuTypes' /\ FaultTypes'
    BY <1>23 DEF ListenTail, Types, IniTypes, SlotTypes, RecvTypes, SendTypes,
         McuTypes, FaultTypes, iniVars, slotVars, recvVars, sendVars, mcuVars
  <2> QED
    BY <2>1, <2>2 DEF Types
<1>24. ASSUME NEW i \in 1..Entries, ListenClear(i) PROVE Types'
  <2>1. ThreadTypes'
    BY <1>24, RunningComs DEF ListenClear, ThreadGoto, ThreadPcs, Slots, Frames,
         NoFrame, Cleared, Types, ThreadTypes, threadVars
  <2>2. SlotTypes'
    <3>1. DataBus[Com(i)] \in Buses
      BY <1>24, RunningComs, Tables DEF ListenClear
    <3> QED
      BY <1>24, <3>1, SlotSteps DEF ListenClear, Types, SlotTypes
  <2>3. IniTypes' /\ RecvTypes' /\ SendTypes' /\ McuTypes'
         /\ FaultTypes'
    BY <1>24 DEF ListenClear, Types, IniTypes, RecvTypes, SendTypes, McuTypes,
         FaultTypes, iniVars, recvVars, sendVars, mcuVars
  <2> QED
    BY <2>1, <2>2, <2>3 DEF Types
<1>25. ASSUME NEW i \in 1..Entries, Send(i) PROVE Types'
  <2>1. ThreadTypes'
    BY <1>25 DEF Send, ThreadGoto, ThreadPcs, Types, ThreadTypes, threadVars
  <2>2. IniTypes' /\ SlotTypes' /\ RecvTypes' /\ SendTypes'
         /\ McuTypes' /\ FaultTypes'
    BY <1>25 DEF Send, Types, IniTypes, SlotTypes, RecvTypes, SendTypes, McuTypes,
         FaultTypes, iniVars, slotVars, recvVars, sendVars, mcuVars
  <2> QED
    BY <2>1, <2>2 DEF Types
<1>26. ASSUME NEW i \in 1..Entries, Enqueue(i) PROVE Types'
  <2>1. ThreadTypes'
    <3>1. Com(i) \in Coms /\ MaxSends \in Nat
      BY <1>26, RunningComs, CanGatewayAssumption DEF Enqueue
    <3>2. passed[Com(i)] + 1 \in 0..MaxSends
      BY <1>26, <3>1 DEF Enqueue, Types, ThreadTypes
    <3> QED
      BY <1>26, <3>1, <3>2 DEF Enqueue, ThreadGoto, ThreadPcs, Types, ThreadTypes
  <2>2. SendTypes'
    <3>1. Com(i) \in Coms
      BY <1>26, RunningComs DEF Enqueue
    <3>2. Append(queue[Com(i)], "data") \in Seq({"cfg", "data"})
      BY <3>1, Sequences DEF Types, SendTypes
    <3> QED
      BY <1>26, <3>1, <3>2 DEF Enqueue, Types, SendTypes
  <2>3. IniTypes' /\ SlotTypes' /\ RecvTypes' /\ McuTypes'
         /\ FaultTypes'
    BY <1>26 DEF Enqueue, Types, IniTypes, SlotTypes, RecvTypes, McuTypes,
         FaultTypes, iniVars, slotVars, recvVars, mcuVars
  <2> QED
    BY <2>1, <2>2, <2>3 DEF Types
<1>27. ASSUME NEW c \in Coms, ClientSend(c) PROVE Types'
  <2>1. SendTypes'
    BY <1>27 DEF ClientSend, CountSent, Types, SendTypes, sendVars
  <2>2. McuTypes'
    BY <1>27 DEF ClientSend, Types, McuTypes, mcuVars
  <2>3. IniTypes' /\ SlotTypes' /\ RecvTypes' /\ ThreadTypes'
         /\ FaultTypes'
    BY <1>27 DEF ClientSend, Types, IniTypes, SlotTypes, RecvTypes, ThreadTypes,
         FaultTypes, iniVars, slotVars, recvVars, threadVars
  <2> QED
    BY <2>1, <2>2, <2>3 DEF Types
<1>28. ASSUME NEW c \in Coms, ClientFails(c) PROVE Types'
  <2>1. SendTypes'
    BY <1>28 DEF ClientFails, Types, SendTypes, sendVars
  <2>2. FaultTypes'
    BY <1>28, CanGatewayAssumption DEF ClientFails, Fault, Types, FaultTypes
  <2>3. IniTypes' /\ SlotTypes' /\ RecvTypes' /\ McuTypes'
         /\ ThreadTypes'
    BY <1>28 DEF ClientFails, Types, IniTypes, SlotTypes, RecvTypes, McuTypes,
         ThreadTypes, iniVars, slotVars, recvVars, mcuVars, threadVars
  <2> QED
    BY <2>1, <2>2, <2>3 DEF Types
<1>29. ASSUME NEW c \in Coms, McuSend(c) PROVE Types'
  <2>1. McuTypes'
    BY <1>29 DEF McuSend, Types, McuTypes, mcuVars
  <2>2. RecvTypes'
    <3> DEFINE f == [com |-> c, n |-> made[c] + 1, cfg |-> mcu[c] = "asked"]
    <3>1. f \in Frames /\ ServerBus[c] \in Buses
      BY Tables DEF Types, McuTypes, Frames
    <3>2. Append(socket[ServerBus[c]], f) \in Seq(Frames)
      BY <3>1, Sequences DEF Types, RecvTypes
    <3> HIDE DEF f
    <3>3. \/ socket' = [socket EXCEPT ![ServerBus[c]] = Append(@, f)]
          \/ UNCHANGED socket
      BY <1>29 DEF McuSend, f
    <3>4. socket' \in [Buses -> Seq(Frames)]
      BY <3>1, <3>2, <3>3 DEF Types, RecvTypes
    <3> QED
      BY <1>29, <3>4 DEF McuSend, Types, RecvTypes
  <2>3. IniTypes' /\ SlotTypes' /\ SendTypes' /\ ThreadTypes'
         /\ FaultTypes'
    BY <1>29 DEF McuSend, Types, IniTypes, SlotTypes, SendTypes, ThreadTypes,
         FaultTypes, iniVars, slotVars, sendVars, threadVars
  <2> QED
    BY <2>1, <2>2, <2>3 DEF Types
<1> QED
  BY <1>1, <1>2, <1>3, <1>4, <1>5, <1>6, <1>7, <1>8, <1>9, <1>10, <1>11, <1>12,
       <1>13, <1>14, <1>15, <1>16, <1>17, <1>18, <1>19, <1>20, <1>21, <1>22, <1>23,
       <1>24, <1>25, <1>26, <1>27, <1>28, <1>29
     DEF Next, Initialiser, ServerTask, EntryThread

\* Only the initialiser changes its variables, the queues that exist, and what is
\* started; the configuration stays what it is.
LEMMA OnlyInitialiser ==
    /\ Next => table' = table
    /\ Next => Initialiser \/ UNCHANGED <<entry, ini, flag, accepted, queueOk>>
<1>1. Initialiser => table' = table
  BY DEF Initialiser, AlreadyInitialised, RefuseEntry, AcceptParameters, InitSemaphore,
         SpawnServer, SetCallback, CreateQueue, SpawnClient, RequestConfiguration,
         CfgWait, CfgHead, CfgTail, CfgClear, StartThreads
<1>2. ASSUME NEW b \in Buses, ServerTask(b)
      PROVE  UNCHANGED <<table, entry, ini, flag, accepted, queueOk>>
  BY <1>2 DEF ServerTask, Bind, RecvFails, Recv, CallbackWait, CallbackHead,
              CallbackTail, iniVars, sendVars
<1>3. ASSUME NEW i \in 1..Entries, EntryThread(i)
      PROVE  UNCHANGED <<table, entry, ini, flag, accepted, queueOk>>
  BY <1>3 DEF EntryThread, ListenWait, ListenHead, ListenTail, ListenClear, Send,
              Enqueue, iniVars, sendVars
<1>4. ASSUME NEW c \in Coms, ClientSend(c) \/ ClientFails(c) \/ McuSend(c)
      PROVE  UNCHANGED <<table, entry, ini, flag, accepted, queueOk>>
  BY <1>4 DEF ClientSend, ClientFails, McuSend, iniVars, sendVars
<1> QED
  BY <1>1, <1>2, <1>3, <1>4 DEF Next

\* The initialiser goes to the next entry, if there is one.
LEMMA EntryAdvances ==
    ASSUME Types, Control, ini \in Busy \cup {"check"}, NextEntry
    PROVE  /\ ini' \in {"start", "check"}
           /\ ini' = "check" => entry' \in 1..Entries
<1>1. Entries \in Nat /\ entry \in 1..Entries
  BY CanGatewayAssumption DEF Control
<1> QED
  BY <1>1 DEF NextEntry

\* Finishing an entry flags all entries of its channel.
LEMMA FinishControl ==
    ASSUME Types, Control, ini \in Busy, FinishEntry, UNCHANGED <<table, thread>>
    PROVE  Control'
<1>1. ini' \in {"start", "check"} /\ (ini' = "check" => entry' \in 1..Entries)
  BY EntryAdvances DEF FinishEntry
<1>2. entry \in 1..Entries /\ ComHere \in Coms /\ flag \subseteq 1..Entries
  BY RunningComs DEF Types, IniTypes
<1>3. \A j : Com(j)' = Com(j)
  BY DEF Com
<1>4. \A j \in flag' : Com(j) \in Coms
  BY <1>2 DEF FinishEntry, Control
<1>5. \A j \in flag' : \A k \in 1..Entries : Com(k) = Com(j) => k \in flag'
  BY <1>2 DEF FinishEntry, Control
<1>6. accepted' \subseteq flag'
  BY <1>2 DEF FinishEntry, Control, ComHere
<1>7. \A i \in 1..Entries : thread[i] = "off"
  BY DEF Control, Busy
<1> QED
  BY <1>1, <1>3, <1>4, <1>5, <1>6, <1>7 DEF Control, Busy, Loop

LEMMA ControlNext ==
    ASSUME Types, Control, Next
    PROVE  Control'
<1>1. table' = table /\ \A j : Com(j)' = Com(j)
  BY OnlyInitialiser DEF Com
<1>2. ini \in Busy \cup {"check"} => \A i \in 1..Entries : thread[i] = "off"
  BY DEF Control, Busy
<1>3. CASE AlreadyInitialised
  <2>1. ini' \in {"start", "check"} /\ (ini' = "check" => entry' \in 1..Entries)
    BY <1>3, EntryAdvances DEF AlreadyInitialised
  <2> QED
    BY <1>1, <1>2, <1>3, <2>1
       DEF AlreadyInitialised, Control, Busy, Loop, threadVars
<1>4. CASE RefuseEntry
  <2>1. ini' \in {"start", "check"} /\ (ini' = "check" => entry' \in 1..Entries)
    BY <1>4, EntryAdvances DEF RefuseEntry
  <2> QED
    BY <1>1, <1>2, <1>4, <2>1 DEF RefuseEntry, Control, Busy, Loop, threadVars
<1>5. CASE AcceptParameters
  BY <1>1, <1>2, <1>5
     DEF AcceptParameters, Goto, Control, Busy, Loop, threadVars, Valid
<1>6. CASE InitSemaphore \/ SpawnServer \/ SetCallback \/ CreateQueue \/ SpawnClient
  BY <1>1, <1>2, <1>6
     DEF InitSemaphore, SpawnServer, SetCallback, CreateQueue, SpawnClient, Goto,
         Control, Busy, Loop, threadVars, Valid
<1>7. CASE RequestConfiguration
  <2>1. CASE FinishEntry
    BY <1>1, <1>7, <2>1, FinishControl DEF RequestConfiguration, Busy, threadVars
  <2>2. CASE ComHere \notin queueOk /\ Goto("wait")
    BY <1>1, <1>2, <1>7, <2>2
       DEF RequestConfiguration, Goto, Control, Busy, Loop, threadVars, Valid, ComHere
  <2> QED
    BY <1>7, <2>1, <2>2 DEF RequestConfiguration
<1>8. CASE CfgWait \/ CfgHead \/ CfgTail
  BY <1>1, <1>2, <1>8
     DEF CfgWait, CfgHead, CfgTail, Goto, Control, Busy, Loop, threadVars, sendVars,
         Valid, ComHere
<1>9. CASE CfgClear
  <2>1. CASE FinishEntry
    BY <1>1, <1>9, <2>1, FinishControl DEF CfgClear, Busy
  <2>2. CASE Goto("wait")
    BY <1>1, <1>2, <1>9, <2>2
       DEF CfgClear, Goto, Control, Busy, Loop, sendVars, Valid, ComHere
  <2> QED
    BY <1>9, <2>1, <2>2 DEF CfgClear
<1>10. CASE StartThreads
  BY <1>1, <1>10 DEF StartThreads, Goto, Control, Busy, Loop
<1>11. ASSUME ~Initialiser PROVE Control'
  <2>1. UNCHANGED <<entry, ini, flag, accepted, queueOk>>
    BY <1>11, OnlyInitialiser
  <2>2. \A i \in 1..Entries : thread'[i] # "off" => thread[i] # "off"
    <3>1. ASSUME NEW k \in 1..Entries, EntryThread(k)
          PROVE  \A i \in 1..Entries : thread'[i] # "off" => thread[i] # "off"
      BY <3>1 DEF EntryThread, ListenWait, ListenHead, ListenTail, ListenClear, Send,
                  Enqueue, ThreadGoto, Types, ThreadTypes
    <3>2. ASSUME NEW b \in Buses, ServerTask(b) PROVE thread' = thread
      BY <3>2 DEF ServerTask, Bind, RecvFails, Recv, CallbackWait, CallbackHead,
                  CallbackTail, threadVars
    <3>3. ASSUME NEW c \in Coms, ClientSend(c) \/ ClientFails(c) \/ McuSend(c)
          PROVE  thread' = thread
      BY <3>3 DEF ClientSend, ClientFails, McuSend, threadVars
    <3> QED
      BY <1>11, <3>1, <3>2, <3>3 DEF Next
  <2> QED
    BY <1>1, <2>1, <2>2 DEF Control, Valid, ComHere
<1> QED
  BY <1>3, <1>4, <1>5, <1>6, <1>7, <1>8, <1>9, <1>10, <1>11 DEF Initialiser

-----------------------------------------------------------------------------
(* The frames to be sent.                                                  *)

\* The channel the initialiser works on is not flagged yet.
LEMMA NotFlagged ==
    ASSUME Types, Control, ini \in Busy
    PROVE  ~Flagged(ComHere)
<1>1. entry \in 1..Entries /\ entry \notin flag
  BY RunningComs DEF Control
<1> QED
  BY <1>1 DEF Control, Flagged, ComHere

LEMMA SendsNext ==
    ASSUME Types, Control, Next, NEW c \in Coms, Sends(c)
    PROVE  Sends(c)'
<1>1. \A j : Com(j)' = Com(j)
  BY OnlyInitialiser DEF Com
<1>2. flag' = flag => (Flagged(c)' <=> Flagged(c))
  BY <1>1 DEF Flagged
<1>3. /\ Len(queue[c]) \in Nat /\ sent[c] \in Nat /\ passed[c] \in Nat
      /\ QueueMax \in Nat \ {0} /\ MaxSends \in Nat
  BY CanGatewayAssumption DEF Types, SendTypes, ThreadTypes
<1>0. {Request(c), Dead(c), Request(c)', Dead(c)'} \subseteq {0, 1}
  BY DEF Request, Dead
<1>4. ASSUME UNCHANGED <<queueOk, queue, client, sent, passed>>,
             Flagged(c)' <=> Flagged(c)
      PROVE  Sends(c)'
  BY <1>4 DEF Sends, Request, Dead
<1>5. CASE AlreadyInitialised \/ RefuseEntry \/ AcceptParameters \/ InitSemaphore
           \/ SpawnServer \/ SetCallback \/ CfgWait \/ CfgHead \/ CfgTail
           \/ StartThreads
  BY <1>2, <1>4, <1>5
     DEF AlreadyInitialised, RefuseEntry, AcceptParameters, InitSemaphore,
         SpawnServer, SetCallback, CfgWait, CfgHead, CfgTail, StartThreads, Goto,
         sendVars, threadVars
<1>6. CASE CreateQueue
  <2>1. c = ComHere => ~Flagged(c)
    BY <1>6, NotFlagged DEF CreateQueue, Busy
  <2>2. c # ComHere => (c \in queueOk' <=> c \in queueOk)
    BY <1>6 DEF CreateQueue
  <2>3. UNCHANGED <<queue, client, sent, passed, flag>>
    BY <1>6 DEF CreateQueue, Goto, threadVars
  <2>4. Flagged(c)' <=> Flagged(c)
    BY <1>2, <2>3
  <2> QED
    BY <2>1, <2>2, <2>3, <2>4 DEF Sends, Request, Dead
<1>7. CASE SpawnClient
  <2>1. c = ComHere => ~Flagged(c)
    BY <1>7, NotFlagged DEF SpawnClient, Busy
  <2>2. c # ComHere => client'[c] = client[c]
    BY <1>7 DEF SpawnClient, Types, SendTypes
  <2>3. client[c] # "dead" => client'[c] # "dead"
    BY <1>7 DEF SpawnClient, Types, SendTypes
  <2>4. UNCHANGED <<queueOk, queue, sent, passed, flag>>
    BY <1>7 DEF SpawnClient, Goto, threadVars
  <2>5. Flagged(c)' <=> Flagged(c)
    BY <1>2, <2>4
  <2> QED
    BY <2>1, <2>2, <2>3, <2>4, <2>5 DEF Sends, Request, Dead
<1>8. ASSUME FinishEntry, c # ComHere PROVE Flagged(c)' <=> Flagged(c)
  BY <1>1, <1>8 DEF FinishEntry, Flagged
<1>9. ASSUME ini \in Busy, FinishEntry, c = ComHere PROVE Flagged(c)'
  BY <1>1, <1>9, RunningComs DEF FinishEntry, Flagged, ComHere
<1>10. CASE RequestConfiguration
  <2>1. UNCHANGED <<queueOk, client, sent, passed>>
    BY <1>10 DEF RequestConfiguration, threadVars
  <2>2. CASE ComHere \notin queueOk /\ Goto("wait") /\ UNCHANGED queue
    BY <1>2, <1>4, <2>1, <2>2 DEF Goto
  <2>3. CASE /\ FinishEntry /\ ComHere \in queueOk /\ Len(queue[ComHere]) < QueueMax
             /\ queue' = [queue EXCEPT ![ComHere] = Append(@, "cfg")]
    <3>1. CASE c # ComHere
      <4>1. queue'[c] = queue[c]
        BY <2>3, <3>1 DEF Types, SendTypes
      <4> QED
        BY <1>8, <2>1, <2>3, <3>1, <4>1 DEF Sends, Request, Dead
    <3>2. CASE c = ComHere
      <4>1. ~Flagged(c) /\ Flagged(c)'
        BY <1>9, <1>10, <2>3, <3>2, NotFlagged DEF RequestConfiguration, Busy
      <4>2. passed[c] = 0 /\ queue[c] = << >> /\ client[c] # "dead"
        BY <4>1 DEF Sends
      <4>3. queue'[c] = Append(queue[c], "cfg") /\ Len(queue'[c]) = 1
        BY <2>3, <3>2, <4>2 DEF Types, SendTypes
      <4> QED
        BY <1>3, <2>1, <2>3, <3>2, <4>1, <4>2, <4>3 DEF Sends, Request, Dead
    <3> QED
      BY <3>1, <3>2
  <2> QED
    BY <1>10, <2>2, <2>3 DEF RequestConfiguration
<1>11. CASE CfgClear
  <2>1. UNCHANGED <<queueOk, queue, client, sent, passed>>
    BY <1>11 DEF CfgClear, sendVars
  <2>2. CASE Goto("wait")
    BY <1>2, <1>4, <2>1, <2>2 DEF Goto
  <2>3. CASE FinishEntry /\ c # ComHere
    BY <1>4, <1>8, <2>1, <2>3
  <2>4. CASE FinishEntry /\ c = ComHere
    <3>1. c \notin queueOk
      BY <1>11, <2>4 DEF CfgClear, Control, Loop
    <3> QED
      BY <2>1, <3>1 DEF Sends, Request, Dead
  <2> QED
    BY <1>11, <2>2, <2>3, <2>4 DEF CfgClear
<1>12. ASSUME NEW b \in Buses, ServerTask(b) PROVE Sends(c)'
  BY <1>2, <1>4, <1>12
     DEF ServerTask, Bind, RecvFails, Recv, CallbackWait, CallbackHead, CallbackTail,
         iniVars, sendVars, threadVars
<1>13. ASSUME NEW i \in 1..Entries, EntryThread(i) PROVE Sends(c)'
  <2>1. CASE Enqueue(i)
    <3>1. Com(i) \in Coms /\ i \in flag
      BY <2>1, RunningComs DEF Enqueue
    <3>2. UNCHANGED <<queueOk, client, sent>> /\ (Flagged(c)' <=> Flagged(c))
      BY <1>2, <2>1 DEF Enqueue, iniVars
    <3>3. CASE Com(i) \notin queueOk \/ Com(i) # c
      <4>1. queue'[c] = queue[c] /\ passed'[c] = passed[c]
        BY <2>1, <3>3 DEF Enqueue, Types, SendTypes, ThreadTypes
      <4> QED
        BY <3>2, <4>1 DEF Sends, Request, Dead
    <3>4. CASE Com(i) \in queueOk /\ Com(i) = c
      <4>1. /\ queue'[c] = Append(queue[c], "data") /\ passed'[c] = passed[c] + 1
            /\ Len(queue[c]) < QueueMax
        BY <2>1, <3>4 DEF Enqueue, Types, SendTypes, ThreadTypes
      <4>2. Len(queue'[c]) = Len(queue[c]) + 1
        BY <4>1, Sequences DEF Types, SendTypes
      <4>3. Flagged(c)
        BY <3>1, <3>4 DEF Flagged
      <4>4. Request(c)' <= Request(c)
        BY <4>1 DEF Request, Types, SendTypes
      <4>5. passed'[c] + Request(c)' <= sent[c] + Len(queue'[c]) + Dead(c)
        <5>1. passed[c] + Request(c) <= sent[c] + Len(queue[c]) + Dead(c)
          BY <3>4, <4>3 DEF Sends
        <5>2. passed'[c] = passed[c] + 1
          BY <4>1
        <5>3. /\ passed[c] \in Nat /\ sent[c] \in Nat /\ Len(queue[c]) \in Nat
              /\ Request(c) \in Nat /\ Request(c)' \in Nat /\ Dead(c) \in Nat
          BY <1>0, <1>3
        <5> DEFINE passing == passed'[c]   before == passed[c]
                   asked == Request(c)'    asking == Request(c)
                   length == Len(queue[c]) longer == Len(queue'[c])
                   left == sent[c]         lost == Dead(c)
        <5>4. /\ {before, left, length, asking, asked, lost} \subseteq Nat
              /\ asked <= asking /\ before + asking <= left + length + lost
              /\ passing = before + 1 /\ longer = length + 1
          BY <4>2, <4>4, <5>1, <5>2, <5>3
        <5> HIDE DEF passing, before, asked, asking, length, longer, left, lost
        <5>5. passing + asked <= left + longer + lost
          BY ONLY <5>4
        <5> QED
          BY <5>5 DEF passing, asked, left, longer, lost
      <4>6. Len(queue'[c]) <= QueueMax
        BY <1>3, <4>1, <4>2
      <4>7. \A k \in 2..Len(queue'[c]) : queue'[c][k] = "data"
        BY <1>3, <3>4, <4>1, <4>2, <4>3 DEF Sends, Types, SendTypes
      <4> QED
        BY <3>2, <3>4, <4>3, <4>5, <4>6, <4>7 DEF Sends, Dead
    <3> QED
      BY <3>3, <3>4
  <2>2. CASE ~Enqueue(i)
    BY <1>2, <1>4, <1>13, <2>2
       DEF EntryThread, ListenWait, ListenHead, ListenTail, ListenClear, Send,
           iniVars, sendVars
  <2> QED
    BY <2>1, <2>2
<1>14. ASSUME NEW d \in Coms, ClientSend(d) \/ ClientFails(d) \/ McuSend(d)
       PROVE  Sends(c)'
  <2>1. UNCHANGED <<queueOk, passed>> /\ (Flagged(c)' <=> Flagged(c))
    BY <1>2, <1>14 DEF ClientSend, ClientFails, McuSend, iniVars, sendVars, threadVars
  <2>2. CASE McuSend(d)
    BY <1>4, <2>1, <2>2 DEF McuSend, sendVars
  <2>3. CASE d # c /\ ~McuSend(d)
    <3>1. queue'[c] = queue[c] /\ sent'[c] = sent[c] /\ client'[c] = client[c]
      BY <1>14, <2>3 DEF ClientSend, CountSent, ClientFails, Types, SendTypes
    <3> QED
      BY <2>1, <3>1 DEF Sends, Request, Dead
  <2>4. CASE d = c /\ ~McuSend(d)
    <3>1. /\ c \in queueOk /\ queue[c] # << >> /\ client[c] = "up"
          /\ queue'[c] = Tail(queue[c])
          /\ \/ sent'[c] = sent[c] + 1 - Request(c) /\ client'[c] = "up"
             \/ sent'[c] = sent[c] /\ client'[c] = "dead"
      BY <1>14, <2>4
         DEF ClientSend, CountSent, ClientFails, Request, Types, SendTypes
    <3>2. /\ Len(queue'[c]) = Len(queue[c]) - 1
          /\ \A k \in 1..Len(queue'[c]) : queue'[c][k] = queue[c][k + 1]
      BY <3>1, Sequences DEF Types, SendTypes
    <3>3. Flagged(c)
      BY <3>1 DEF Sends
    <3>4. \A k \in 1..Len(queue'[c]) : queue'[c][k] = "data"
      BY <1>3, <3>1, <3>2, <3>3 DEF Sends
    <3>5. Request(c)' = 0
      <4>1. CASE queue'[c] = << >>
        BY <4>1 DEF Request
      <4>2. CASE queue'[c] # << >>
        <5>1. queue'[c] \in Seq({"cfg", "data"})
          BY <3>1, Sequences DEF Types, SendTypes
        <5>2. 1 \in 1..Len(queue'[c])
          BY <4>2, <5>1
        <5> QED
          BY <3>4, <5>2 DEF Request
      <4> QED
        BY <4>1, <4>2
    <3>6. passed'[c] + Request(c)' <= sent'[c] + Len(queue'[c]) + Dead(c)'
      <4>1. Dead(c) = 0 /\ (client'[c] = "up" => Dead(c)' = 0)
        BY <3>1 DEF Dead
      <4>2. client'[c] = "dead" => Dead(c)' = 1
        BY DEF Dead
      <4>3. passed[c] + Request(c) <= sent[c] + Len(queue[c])
        BY <1>0, <1>3, <3>1, <3>3, <4>1 DEF Sends
      <4>4. passed'[c] = passed[c]
        BY <2>1
      <4> QED
        BY <1>0, <1>3, <3>1, <3>2, <3>5, <4>1, <4>2, <4>3, <4>4
    <3> QED
      BY <1>3, <2>1, <3>1, <3>2, <3>3, <3>4, <3>6 DEF Sends
  <2> QED
    BY <2>2, <2>3, <2>4
<1> QED
  BY <1>5, <1>6, <1>7, <1>10, <1>11, <1>12, <1>13, <1>14 DEF Next, Initialiser

\* Sends(c) gives the bound.
LEMMA SendsBound ==
    ASSUME Types, \A c \in Coms : Sends(c)
    PROVE  SendsLostBounded
<1> SUFFICES ASSUME NEW c \in Coms PROVE passed[c] - sent[c] <= QueueMax + Dead(c)
  BY DEF SendsLostBounded, Dead
<1>1. /\ Len(queue[c]) \in Nat /\ sent[c] \in Nat /\ passed[c] \in Nat
      /\ QueueMax \in Nat \ {0} /\ MaxSends \in Nat
  BY CanGatewayAssumption DEF Types, SendTypes, ThreadTypes
<1> QED
  BY <1>1 DEF Sends, Request, Dead

-----------------------------------------------------------------------------
(* The semaphores.                                                         *)

\* A semaphore that is ready stays so; only InitSemaphore makes one ready, which was
\* not ready before.
LEMMA ReadyNext ==
    ASSUME Types, Control, Next, NEW b \in Buses
    PROVE  /\ Ready(b) => Ready(b)'
           /\ Ready(b)' /\ ~Ready(b) => InitSemaphore /\ BusHere = b
           /\ ini = "sem" /\ BusHere = b => ~Ready(b)
<1>1. table' = table /\ \A j : Com(j)' = Com(j)
  BY OnlyInitialiser DEF Com
<1>2. ini = "sem" /\ BusHere = b => ~Ready(b)
  <2> SUFFICES ASSUME ini = "sem", BusHere = b, NEW j \in flag, ServerBus[Com(j)] = b
               PROVE  FALSE
    BY DEF Ready
  <2>1. Com(j) \in Coms /\ ComHere \in Coms
    BY RunningComs DEF Busy, Control
  <2>2. Com(j) = ComHere
    BY <2>1, Tables DEF BusHere
  <2> QED
    BY <2>2, NotFlagged DEF Flagged, Busy
<1>3. CASE AlreadyInitialised \/ RefuseEntry \/ AcceptParameters \/ StartThreads
  <2>1. ini \notin Busy /\ ini' \notin Busy \ {"sem"} /\ flag' = flag
    BY <1>3 DEF AlreadyInitialised, RefuseEntry, AcceptParameters, StartThreads, Busy,
                Goto, NextEntry
  <2> QED
    BY <1>1, <1>2, <2>1 DEF Ready
<1>4. CASE InitSemaphore
  <2>1. ini = "sem" /\ ini' = "server" /\ flag' = flag /\ BusHere' = BusHere
    BY <1>1, <1>4 DEF InitSemaphore, Goto, BusHere, ComHere, Com
  <2> QED
    BY <1>1, <1>2, <1>4, <2>1 DEF Ready, Busy
<1>5. ASSUME ini \in Busy \ {"sem"}, ini' \in Busy \ {"sem"}, UNCHANGED <<entry, flag>>
      PROVE  Ready(b)' <=> Ready(b)
  BY <1>1, <1>5 DEF Ready, BusHere, ComHere, Com
<1>6. ASSUME ini \in Busy \ {"sem"}, FinishEntry
      PROVE  Ready(b)' <=> Ready(b)
  <2>1. ini' \notin Busy
    BY <1>6 DEF FinishEntry, NextEntry, Busy
  <2>2. flag' = flag \cup {j \in 1..Entries : Com(j) = ComHere} /\ entry \in 1..Entries
    BY <1>6, RunningComs DEF FinishEntry
  <2> QED
    BY <1>1, <1>6, <2>1, <2>2 DEF Ready, BusHere, ComHere
<1>7. CASE SpawnServer \/ SetCallback \/ CreateQueue \/ SpawnClient \/ CfgWait
           \/ CfgHead \/ CfgTail
  BY <1>2, <1>5, <1>7 DEF SpawnServer, SetCallback, CreateQueue, SpawnClient, CfgWait,
                    CfgHead, CfgTail, Goto, Busy
<1>8. CASE RequestConfiguration \/ CfgClear
  <2>1. ini \in Busy \ {"sem"} /\ (FinishEntry \/ Goto("wait"))
    BY <1>8 DEF RequestConfiguration, CfgClear, Busy
  <2> QED
    BY <1>2, <1>5, <1>6, <2>1 DEF Goto, Busy
<1>9. CASE ~Initialiser
  BY <1>1, <1>2, <1>9, OnlyInitialiser DEF Ready, BusHere, ComHere, Com
<1> QED
  BY <1>3, <1>4, <1>7, <1>8, <1>9 DEF Initialiser

\* A server task that has not been created takes no step.
LEMMA UnstartedNext ==
    ASSUME Types, Control, Next, NEW b \in Buses, Unstarted(b)
    PROVE  Unstarted(b)'
<1>1. server' = server \/ SpawnServer \/ \E d \in Buses : ServerTask(d)
  BY DEF Next, Initialiser, AlreadyInitialised, RefuseEntry, AcceptParameters,
         InitSemaphore, SetCallback, CreateQueue, SpawnClient, RequestConfiguration,
         CfgWait, CfgHead, CfgTail, CfgClear, StartThreads, EntryThread, ListenWait,
         ListenHead, ListenTail, ListenClear, Send, Enqueue, ClientSend, ClientFails,
         McuSend, recvVars
<1>2. ASSUME SpawnServer, BusHere = b PROVE Unstarted(b)'
  <2>1. Ready(b)'
    BY <1>2, ReadyNext DEF SpawnServer, Ready, Busy
  <2>2. ini' # "server"
    BY <1>2 DEF SpawnServer, Goto
  <2> QED
    BY <2>1, <2>2 DEF Unstarted
<1>3. server[b] = "none" => server'[b] = "none" \/ (SpawnServer /\ BusHere = b)
  <2>1. ASSUME NEW d \in Buses, ServerTask(d), server[b] = "none"
        PROVE  server'[b] = "none"
    BY <2>1 DEF ServerTask, Bind, RecvFails, Recv, CallbackWait, CallbackHead,
                CallbackTail, ServerGoto, Types, RecvTypes
  <2>2. ASSUME SpawnServer, BusHere # b PROVE server'[b] = server[b]
    BY <2>2 DEF SpawnServer, Types, RecvTypes
  <2> QED
    BY <1>1, <2>1, <2>2
<1>4. ini' = "server" /\ BusHere' = b =>
        (ini = "server" /\ BusHere = b) \/ (ini = "sem" /\ BusHere = b)
  <2>1. table' = table
    BY OnlyInitialiser
  <2>2. CASE Initialiser
    BY <2>1, <2>2
       DEF Initialiser, AlreadyInitialised, RefuseEntry, AcceptParameters,
           InitSemaphore, SpawnServer, SetCallback, CreateQueue, SpawnClient,
           RequestConfiguration, CfgWait, CfgHead, CfgTail, CfgClear, StartThreads,
           Goto, NextEntry, FinishEntry, BusHere, ComHere, Com
  <2>3. CASE ~Initialiser
    BY <2>1, <2>3, OnlyInitialiser DEF BusHere, ComHere, Com
  <2> QED
    BY <2>2, <2>3
<1> QED
  BY <1>2, <1>3, <1>4, ReadyNext DEF Unstarted

\* Steps that change neither the semaphore nor who is inside.
LEMMA ExclusiveFrame ==
    ASSUME Types, Control, Next, NEW b \in Buses, Exclusive(b), ~InitSemaphore,
           sem'[b] = sem[b],
           server'[b] \in Inside <=> server[b] \in Inside,
           \A i \in 1..Entries : ListenerHolds(i, b)' <=> ListenerHolds(i, b),
           IniHolds(b)' <=> IniHolds(b)
    PROVE  Exclusive(b)'
<1>1. Ready(b)' <=> Ready(b)
  BY ReadyNext
<1> QED
  BY <1>1 DEF Exclusive, NobodyHolds, Held, ServerOnly, ListenerOnly, IniOnly

\* The initialiser's steps.
LEMMA ExclusiveInitialiser ==
    ASSUME Types, Control, Next, NEW b \in Buses, Exclusive(b), Unstarted(b), Initialiser
    PROVE  Exclusive(b)'
<1>1. table' = table /\ \A j : Com(j)' = Com(j)
  BY OnlyInitialiser DEF Com
<1>2. thread' = thread => \A i \in 1..Entries : ListenerHolds(i, b)' <=> ListenerHolds(i, b)
  BY <1>1 DEF ListenerHolds
<1>3. CASE AlreadyInitialised \/ RefuseEntry \/ AcceptParameters \/ SetCallback
           \/ CreateQueue \/ SpawnClient \/ RequestConfiguration
  <2>1. UNCHANGED <<sem, server, thread>> /\ ini \notin Inside /\ ini' \notin Inside
         /\ ~InitSemaphore
    BY <1>3 DEF AlreadyInitialised, RefuseEntry, AcceptParameters, SetCallback,
         CreateQueue, SpawnClient, RequestConfiguration, Goto, NextEntry, FinishEntry,
         InitSemaphore, Inside, slotVars, recvVars, threadVars
  <2>2. ~IniHolds(b) /\ ~IniHolds(b)'
    BY <2>1 DEF IniHolds
  <2> QED
    BY <1>2, <2>1, <2>2, ExclusiveFrame
<1>4. CASE InitSemaphore
  <2>1. UNCHANGED <<server, thread>> /\ ini = "sem" /\ ini' = "server"
         /\ sem' = [sem EXCEPT ![BusHere] = 1]
    BY <1>4 DEF InitSemaphore, Goto, recvVars, threadVars
  <2>2. ~IniHolds(b) /\ ~IniHolds(b)'
    BY <2>1 DEF IniHolds, Inside
  <2>3. Held(b)' <=> Held(b)
    BY <1>2, <2>1, <2>2 DEF Held
  <2>4. CASE BusHere = b
    <3>1. ~Ready(b)
      BY <2>1, <2>4, ReadyNext
    <3>2. Ready(b)'
      BY <1>1, <1>4, <2>1, <2>4
         DEF Ready, Busy, InitSemaphore, Goto, BusHere, ComHere, Com
    <3>3. sem'[b] = 1
      BY <2>1, <2>4 DEF Types, SlotTypes
    <3>4. ~Held(b)
      BY <3>1 DEF Exclusive, NobodyHolds
    <3> QED
      BY <2>3, <3>2, <3>3, <3>4 DEF Exclusive, NobodyHolds
  <2>5. CASE BusHere # b
    <3>1. sem'[b] = sem[b]
      BY <2>1, <2>5 DEF Types, SlotTypes
    <3>2. Ready(b)' <=> Ready(b)
      BY <2>5, ReadyNext
    <3> QED
      BY <1>2, <2>1, <2>2, <2>3, <3>1, <3>2
         DEF Exclusive, NobodyHolds, ServerOnly, ListenerOnly, IniOnly
  <2> QED
    BY <2>4, <2>5
<1>5. CASE SpawnServer
  <2>1. UNCHANGED <<sem, thread>> /\ ini = "server" /\ ini' = "callback"
         /\ ~InitSemaphore
         /\ (server' = server \/ server' = [server EXCEPT ![BusHere] = "bind"])
    BY <1>5 DEF SpawnServer, InitSemaphore, Goto, slotVars, threadVars
  <2>2. ~IniHolds(b) /\ ~IniHolds(b)'
    BY <2>1 DEF IniHolds, Inside
  <2>3. server'[b] \in Inside <=> server[b] \in Inside
    BY <2>1 DEF Unstarted, Inside, Types, RecvTypes
  <2> QED
    BY <1>2, <2>1, <2>2, <2>3, ExclusiveFrame
<1>6. CASE CfgHead \/ CfgTail
  <2>1. UNCHANGED <<sem, server, thread>> /\ ~InitSemaphore
    BY <1>6 DEF CfgHead, CfgTail, InitSemaphore, slotVars, recvVars
  <2>2. IniHolds(b)' <=> IniHolds(b)
    BY <1>1, <1>6 DEF CfgHead, CfgTail, Goto, IniHolds, Inside, ComHere, Com
  <2> QED
    BY <1>2, <2>1, <2>2, ExclusiveFrame
<1>7. CASE CfgWait
  <2>1. UNCHANGED <<server, thread>> /\ ini = "wait" /\ ini' = "head" /\ ~InitSemaphore
         /\ ComHere' = ComHere
    BY <1>1, <1>7 DEF CfgWait, InitSemaphore, Goto, recvVars, threadVars, ComHere, Com
  <2>2. ~IniHolds(b) /\ (IniHolds(b)' <=> CfgSem[ComHere] = b)
    BY <2>1 DEF IniHolds, Inside
  <2>3. CASE CfgSem[ComHere] = b
    <3>1. sem[b] > 0 /\ sem'[b] = sem[b] - 1
      BY <1>7, <2>3 DEF CfgWait, TakeSem, Types, SlotTypes
    <3>2. sem[b] = 1 /\ Ready(b) /\ ~Held(b)
      BY <3>1 DEF Exclusive, NobodyHolds
    <3>3. sem'[b] = 0 /\ Ready(b)'
      BY <3>1, <3>2, ReadyNext
    <3>4. IniOnly(b)'
      BY <1>2, <2>1, <2>2, <2>3, <3>2 DEF IniOnly, Held
    <3> QED
      BY <3>3, <3>4 DEF Exclusive
  <2>4. CASE CfgSem[ComHere] # b
    <3>1. sem'[b] = sem[b]
      BY <1>7, <2>4 DEF CfgWait, TakeSem, Types, SlotTypes
    <3> QED
      BY <1>2, <2>1, <2>2, <2>4, <3>1, ExclusiveFrame
  <2> QED
    BY <2>3, <2>4
<1>8. CASE CfgClear
  <2>1. UNCHANGED <<server, thread>> /\ ini = "clear" /\ ini' \notin Inside
         /\ ~InitSemaphore
    BY <1>8 DEF CfgClear, InitSemaphore, Goto, FinishEntry, NextEntry, recvVars, Inside
  <2>2. ~IniHolds(b)' /\ (IniHolds(b) <=> CfgSem[ComHere] = b)
    BY <2>1 DEF IniHolds, Inside
  <2>3. CASE CfgSem[ComHere] = b
    <3>1. sem[b] = 0 /\ Ready(b) /\ IniOnly(b)
      BY <2>2, <2>3 DEF Exclusive, NobodyHolds, Held, ServerOnly, ListenerOnly
    <3>2. sem'[b] = 1 /\ Ready(b)'
      BY <1>8, <2>3, <3>1, ReadyNext DEF CfgClear, PostSem, Types, SlotTypes
    <3>3. ~Held(b)'
      BY <1>2, <2>1, <2>2, <3>1 DEF Held, IniOnly
    <3> QED
      BY <3>2, <3>3 DEF Exclusive, NobodyHolds
  <2>4. CASE CfgSem[ComHere] # b
    <3>1. sem'[b] = sem[b]
      BY <1>8, <2>4 DEF CfgClear, PostSem, Types, SlotTypes
    <3> QED
      BY <1>2, <2>1, <2>2, <2>4, <3>1, ExclusiveFrame
  <2> QED
    BY <2>3, <2>4
<1>9. CASE StartThreads
  <2>1. UNCHANGED <<sem, server>> /\ ini = "start" /\ ini' = "done" /\ ~InitSemaphore
    BY <1>9 DEF StartThreads, InitSemaphore, Goto, slotVars, recvVars
  <2>2. ~IniHolds(b) /\ ~IniHolds(b)'
    BY <2>1 DEF IniHolds, Inside
  <2>3. \A i \in 1..Entries : thread[i] \notin Inside /\ thread'[i] \notin Inside
    BY <1>9, <2>1 DEF StartThreads, Control, Inside
  <2> QED
    BY <2>1, <2>2, <2>3, ExclusiveFrame DEF ListenerHolds
<1> QED
  BY <1>3, <1>4, <1>5, <1>6, <1>7, <1>8, <1>9 DEF Initialiser

\* The steps of the server tasks.
LEMMA ExclusiveServer ==
    ASSUME Types, Control, Next, NEW b \in Buses, Exclusive(b), ~Initialiser,
           NEW d \in Buses, ServerTask(d)
    PROVE  Exclusive(b)'
<1>1. UNCHANGED <<table, entry, ini, thread>>
  BY DEF ServerTask, Bind, RecvFails, Recv, CallbackWait, CallbackHead, CallbackTail,
         iniVars, threadVars
<1>2. /\ \A i \in 1..Entries : ListenerHolds(i, b)' <=> ListenerHolds(i, b)
      /\ IniHolds(b)' <=> IniHolds(b)
  BY <1>1 DEF ListenerHolds, IniHolds, ComHere, Com
<1>3. ~InitSemaphore
  BY DEF Initialiser
<1>4. CASE d # b
  <2>1. sem'[b] = sem[b] /\ server'[b] = server[b]
    BY <1>4 DEF ServerTask, Bind, RecvFails, Recv, CallbackWait, CallbackHead,
         CallbackTail, ServerGoto, TakeSem, PostSem, slotVars, Types, RecvTypes,
         SlotTypes
  <2> QED
    BY <1>2, <1>3, <2>1, ExclusiveFrame
<1>5. CASE d = b /\ (Bind(b) \/ RecvFails(b) \/ Recv(b) \/ CallbackHead(b))
  <2>1. sem' = sem
    BY <1>5 DEF Bind, RecvFails, Recv, CallbackHead, slotVars
  <2>2. server'[b] \in Inside <=> server[b] \in Inside
    BY <1>5 DEF Bind, RecvFails, Recv, CallbackHead, ServerGoto, Inside, Types,
                RecvTypes
  <2> QED
    BY <1>2, <1>3, <2>1, <2>2, ExclusiveFrame
<1>6. CASE CallbackWait(b)
  <2>1. server'[b] = "head" /\ sem[b] > 0 /\ sem'[b] = sem[b] - 1
    BY <1>6 DEF CallbackWait, ServerGoto, TakeSem, Types, RecvTypes, SlotTypes
  <2>2. sem[b] = 1 /\ Ready(b) /\ ~Held(b)
    BY <2>1 DEF Exclusive, NobodyHolds
  <2>3. sem'[b] = 0 /\ Ready(b)'
    BY <2>1, <2>2, ReadyNext
  <2>4. ServerOnly(b)'
    BY <1>2, <2>1, <2>2 DEF ServerOnly, Held, Inside
  <2> QED
    BY <2>3, <2>4 DEF Exclusive
<1>7. CASE CallbackTail(b)
  <2>1. server[b] = "tail" /\ server'[b] = "recv" /\ sem'[b] = sem[b] + 1
    BY <1>7 DEF CallbackTail, ServerGoto, PostSem, Types, RecvTypes, SlotTypes
  <2>2. sem[b] = 0 /\ Ready(b) /\ ServerOnly(b)
    BY <2>1 DEF Exclusive, NobodyHolds, Held, ListenerOnly, IniOnly, Inside
  <2>3. sem'[b] = 1 /\ Ready(b)'
    BY <2>1, <2>2, ReadyNext
  <2>4. ~Held(b)'
    BY <1>2, <2>1, <2>2 DEF ServerOnly, Held, Inside
  <2> QED
    BY <2>3, <2>4 DEF Exclusive, NobodyHolds
<1> QED
  BY <1>4, <1>5, <1>6, <1>7 DEF ServerTask

\* The steps of the threads of the entries.
LEMMA ExclusiveThreads ==
    ASSUME Types, Control, Next, NEW b \in Buses, Exclusive(b), ~Initialiser,
           NEW i \in 1..Entries, EntryThread(i)
    PROVE  Exclusive(b)'
<1>1. UNCHANGED <<table, entry, ini, server>> /\ \A j : Com(j)' = Com(j)
  BY DEF EntryThread, ListenWait, ListenHead, ListenTail, ListenClear, Send, Enqueue,
         iniVars, recvVars, Com
<1>2. /\ server'[b] \in Inside <=> server[b] \in Inside
      /\ IniHolds(b)' <=> IniHolds(b)
  BY <1>1 DEF IniHolds, ComHere, Com
<1>3. ~InitSemaphore
  BY DEF Initialiser
<1>4. \A j \in 1..Entries \ {i} : ListenerHolds(j, b)' <=> ListenerHolds(j, b)
  BY <1>1 DEF EntryThread, ListenWait, ListenHead, ListenTail, ListenClear, Send, Enqueue,
         ThreadGoto, ListenerHolds, Types, ThreadTypes
<1>5. CASE ListenHead(i) \/ ListenTail(i) \/ Send(i) \/ Enqueue(i)
  <2>1. sem' = sem
    BY <1>5 DEF ListenHead, ListenTail, Send, Enqueue, slotVars
  <2>2. ListenerHolds(i, b)' <=> ListenerHolds(i, b)
    BY <1>1, <1>5 DEF ListenHead, ListenTail, Send, Enqueue, ThreadGoto, ListenerHolds,
                Inside, Types, ThreadTypes
  <2> QED
    BY <1>2, <1>3, <1>4, <2>1, <2>2, ExclusiveFrame
<1>6. CASE ListenWait(i)
  <2>1. thread[i] = "wait" /\ thread'[i] = "head"
    BY <1>6 DEF ListenWait, ThreadGoto, Types, ThreadTypes
  <2>2. ~ListenerHolds(i, b) /\ (ListenerHolds(i, b)' <=> DataBus[Com(i)] = b)
    BY <1>1, <2>1 DEF ListenerHolds, Inside
  <2>3. CASE DataBus[Com(i)] = b
    <3>1. sem[b] > 0 /\ sem'[b] = sem[b] - 1
      BY <1>6, <2>3 DEF ListenWait, TakeSem, Types, SlotTypes
    <3>2. sem[b] = 1 /\ Ready(b) /\ ~Held(b)
      BY <3>1 DEF Exclusive, NobodyHolds
    <3>3. sem'[b] = 0 /\ Ready(b)'
      BY <3>1, <3>2, ReadyNext
    <3>4. ListenerOnly(b)'
      BY <1>2, <1>4, <2>2, <2>3, <3>2 DEF ListenerOnly, Held
    <3> QED
      BY <3>3, <3>4 DEF Exclusive
  <2>4. CASE DataBus[Com(i)] # b
    <3>1. sem'[b] = sem[b]
      BY <1>6, <2>4 DEF ListenWait, TakeSem, Types, SlotTypes
    <3> QED
      BY <1>2, <1>3, <1>4, <2>2, <2>4, <3>1, ExclusiveFrame
  <2> QED
    BY <2>3, <2>4
<1>7. CASE ListenClear(i)
  <2>1. thread[i] = "clear" /\ thread'[i] = "wait"
    BY <1>7 DEF ListenClear, ThreadGoto, Types, ThreadTypes
  <2>2. ~ListenerHolds(i, b)' /\ (ListenerHolds(i, b) <=> DataBus[Com(i)] = b)
    BY <1>1, <2>1 DEF ListenerHolds, Inside
  <2>3. CASE DataBus[Com(i)] = b
    <3>1. sem[b] = 0 /\ Ready(b) /\ ListenerOnly(b)
      BY <2>2, <2>3 DEF Exclusive, NobodyHolds, Held, ServerOnly, IniOnly
    <3>2. sem'[b] = 1 /\ Ready(b)'
      BY <1>7, <2>3, <3>1, ReadyNext DEF ListenClear, PostSem, Types, SlotTypes
    <3>3. ~Held(b)'
      BY <1>2, <1>4, <2>2, <2>3, <3>1 DEF ListenerOnly, Held
    <3> QED
      BY <3>2, <3>3 DEF Exclusive, NobodyHolds
  <2>4. CASE DataBus[Com(i)] # b
    <3>1. sem'[b] = sem[b]
      BY <1>7, <2>4 DEF ListenClear, PostSem, Types, SlotTypes
    <3> QED
      BY <1>2, <1>3, <1>4, <2>2, <2>4, <3>1, ExclusiveFrame
  <2> QED
    BY <2>3, <2>4
<1> QED
  BY <1>5, <1>6, <1>7 DEF EntryThread

LEMMA ExclusiveNext ==
    ASSUME Types, Control, Next, NEW b \in Buses, Exclusive(b), Unstarted(b)
    PROVE  Exclusive(b)'
<1>1. CASE Initialiser
  BY <1>1, ExclusiveInitialiser
<1>2. CASE ~Initialiser
  <2>1. ASSUME NEW d \in Buses, ServerTask(d) PROVE Exclusive(b)'
    BY <1>2, <2>1, ExclusiveServer
  <2>2. ASSUME NEW i \in 1..Entries, EntryThread(i) PROVE Exclusive(b)'
    BY <1>2, <2>2, ExclusiveThreads
  <2>3. ASSUME NEW c \in Coms, ClientSend(c) \/ ClientFails(c) \/ McuSend(c)
        PROVE  Exclusive(b)'
    <3>1. UNCHANGED <<table, entry, ini, thread, sem, server>>
      BY <2>3 DEF ClientSend, ClientFails, McuSend, iniVars, slotVars, recvVars,
                  threadVars
    <3>2. /\ \A i \in 1..Entries : ListenerHolds(i, b)' <=> ListenerHolds(i, b)
          /\ IniHolds(b)' <=> IniHolds(b)
      BY <3>1 DEF ListenerHolds, IniHolds, ComHere, Com
    <3> QED
      BY <1>2, <3>1, <3>2, ExclusiveFrame DEF Initialiser
  <2> QED
    BY <1>2, <2>1, <2>2, <2>3 DEF Next
<1> QED
  BY <1>1, <1>2

\* A thread runs, and a server task has been created, only when the semaphore is ready.
LEMMA WaitersLemma ==
    ASSUME Types, Control, \A b \in Buses : Exclusive(b) /\ Unstarted(b)
    PROVE  WaitersAreServed
<1> SUFFICES ASSUME NEW b \in Buses, sem[b] = 0, ~Held(b)
             PROVE  /\ server[b] # "wait"
                    /\ \A i \in 1..Entries : thread[i] = "wait" => DataBus[Com(i)] # b
  BY DEF WaitersAreServed
<1>1. ~Ready(b)
  BY DEF Exclusive, NobodyHolds, Held, ServerOnly, ListenerOnly, IniOnly
<1>2. server[b] = "none"
  BY <1>1 DEF Unstarted
<1>3. ASSUME NEW i \in 1..Entries, thread[i] = "wait" PROVE DataBus[Com(i)] # b
  <2>1. i \in flag
    BY <1>3, RunningComs
  <2> QED
    BY <1>1, <2>1, Tables DEF Ready
<1> QED
  BY <1>2, <1>3

-----------------------------------------------------------------------------
(* The way of a frame.                                                     *)

\* The tail of a sequence, and a sequence with one more element, by their indices.
LEMMA SequenceIndices ==
    ASSUME NEW S, NEW q \in Seq(S)
    PROVE  /\ q # << >> => /\ 1 \in DOMAIN q /\ Head(q) = q[1]
                          /\ \A k \in DOMAIN Tail(q) :
                               k + 1 \in DOMAIN q /\ k + 1 > 1 /\ k \in Nat
                                 /\ Tail(q)[k] = q[k + 1]
           /\ \A x \in S : \A k \in DOMAIN Append(q, x) :
                \/ k \in DOMAIN q /\ k < Len(q) + 1 /\ Append(q, x)[k] = q[k]
                \/ k = Len(q) + 1 /\ Append(q, x)[k] = x
<1>1. DOMAIN q = 1..Len(q) /\ Len(q) \in Nat
  OBVIOUS
<1>2. ASSUME q # << >>
      PROVE  /\ 1 \in DOMAIN q /\ Head(q) = q[1]
             /\ \A k \in DOMAIN Tail(q) :
                  k + 1 \in DOMAIN q /\ k + 1 > 1 /\ k \in Nat
                    /\ Tail(q)[k] = q[k + 1]
  <2>1. Len(q) >= 1
    BY <1>2
  <2>2. Tail(q) \in Seq(S) /\ Len(Tail(q)) = Len(q) - 1
    BY <1>2, Sequences
  <2>3. DOMAIN Tail(q) = 1..(Len(q) - 1)
    BY <2>2
  <2> QED
    BY <1>1, <1>2, <2>1, <2>3
<1>3. ASSUME NEW x \in S, NEW k \in DOMAIN Append(q, x)
      PROVE  \/ k \in DOMAIN q /\ k < Len(q) + 1 /\ Append(q, x)[k] = q[k]
             \/ k = Len(q) + 1 /\ Append(q, x)[k] = x
  <2>1. DOMAIN Append(q, x) = 1..(Len(q) + 1)
    OBVIOUS
  <2>2. CASE k = Len(q) + 1
    BY <1>1, <2>2
  <2>3. CASE k # Len(q) + 1
    BY <1>1, <1>3, <2>1, <2>3
  <2> QED
    BY <2>2, <2>3
<1> QED
  BY <1>2, <1>3

\* The numbers are numbers.
LEMMA FrameNumbers ==
    ASSUME Types, NEW c \in Coms
    PROVE  /\ ServerBus[c] \in Buses
           /\ taken[c] \in Nat /\ made[c] \in Nat
           /\ slot[ServerBus[c]] \in Slots
           /\ slot[ServerBus[c]].head \in Frames \cup {NoFrame}
           /\ slot[ServerBus[c]].head.n \in Nat
           /\ slot[ServerBus[c]].head = NoFrame => slot[ServerBus[c]].head.n = 0
           /\ hand[ServerBus[c]].n \in Nat
           /\ socket[ServerBus[c]] \in Seq(Frames)
           /\ \A k \in DOMAIN socket[ServerBus[c]] :
                socket[ServerBus[c]][k].n \in Nat /\ socket[ServerBus[c]][k] \in Frames
<1> DEFINE b == ServerBus[c]
<1>1. b \in Buses
  BY Tables
<1> HIDE DEF b
<1>2. taken[c] \in Nat /\ made[c] \in Nat
  BY DEF Types, ThreadTypes, McuTypes
<1>3. slot[b] \in Slots /\ slot[b].head \in Frames \cup {NoFrame}
  BY <1>1 DEF Types, SlotTypes, Slots
<1>4. \A f \in Frames \cup {NoFrame} : f.n \in Nat
  BY DEF Frames, NoFrame
<1>5. slot[b].head = NoFrame => slot[b].head.n = 0
  BY DEF NoFrame
<1>6. hand[b] \in Frames \cup {NoFrame} /\ socket[b] \in Seq(Frames)
  BY <1>1 DEF Types, RecvTypes
<1>7. \A k \in DOMAIN socket[b] : socket[b][k] \in Frames
  BY <1>6
<1> QED
  BY <1>1, <1>2, <1>3, <1>4, <1>5, <1>6, <1>7 DEF b

\* Steps that leave the frames of a com and its arrays alone.
LEMMA PipelineFrame ==
    ASSUME Next, NEW c \in Coms, Pipeline(c), NEW b, b = ServerBus[c],
           socket'[b] = socket[b], hand'[b] = hand[b], slot'[b] = slot[b],
           taken'[c] = taken[c], made'[c] = made[c],
           server'[b] = "tail" <=> server[b] = "tail",
           server'[b] \in {"wait", "head"} => server[b] \in {"wait", "head"},
           \A i \in 1..Entries : Com(i) = c =>
              \/ thread'[i] = thread[i] /\ copy'[i] = copy[i]
              \/ thread'[i] \notin {"tail", "clear"}
    PROVE  Pipeline(c)'
<1> SUFFICES ASSUME b \in GuardedBuses
             PROVE  OwnFrames(c)' /\ Ordered(c)' /\ Whole(c)'
  BY DEF Pipeline
<1>1. OwnFrames(c) /\ Ordered(c) /\ Whole(c)
  BY DEF Pipeline
<1>2. \A j : Com(j)' = Com(j)
  BY OnlyInitialiser DEF Com
<1>3. OwnFrames(c)'
  BY <1>1 DEF OwnFrames, Holding
<1>4. Ordered(c)'
  BY <1>1 DEF Ordered, Holding
<1>5. Whole(c)'
  BY <1>1, <1>2 DEF Whole
<1> QED
  BY <1>3, <1>4, <1>5

\* The initialiser disturbs an array only with its semaphore.
LEMMA PipelineInitialiser ==
    ASSUME Types, Control, Next, \A b \in Buses : Exclusive(b) /\ Unstarted(b),
           NEW c \in Coms, Pipeline(c), Initialiser
    PROVE  Pipeline(c)'
<1> DEFINE b == ServerBus[c]
<1>1. b \in Buses
  BY Tables
<1>2. Entries \in Nat /\ 0 \notin 1..Entries
  BY CanGatewayAssumption
<1>3. CASE AlreadyInitialised \/ RefuseEntry \/ AcceptParameters \/ InitSemaphore
           \/ SetCallback \/ CreateQueue \/ SpawnClient \/ RequestConfiguration \/ CfgWait
  <2>1. UNCHANGED <<socket, hand, slot, taken, made, server, thread, copy>>
    BY <1>3 DEF AlreadyInitialised, RefuseEntry, AcceptParameters, InitSemaphore,
         SetCallback, CreateQueue, SpawnClient, RequestConfiguration, CfgWait,
         slotVars, recvVars, mcuVars, threadVars
  <2> QED
    BY <2>1, PipelineFrame
<1>4. CASE CfgHead \/ CfgTail
  <2>1. UNCHANGED <<socket, hand, slot, taken, made, server, thread>>
    BY <1>4 DEF CfgHead, CfgTail, slotVars, recvVars, mcuVars
  <2>2. \A i \in 1..Entries : copy'[i] = copy[i]
    BY <1>2, <1>4 DEF CfgHead, CfgTail, CopyHead, CopyTail, Types, ThreadTypes
  <2> QED
    BY <2>1, <2>2, PipelineFrame
<1>5. CASE SpawnServer
  <2>1. UNCHANGED <<socket, hand, slot, taken, made, thread, copy>>
    BY <1>5 DEF SpawnServer, slotVars, mcuVars, threadVars
  <2>2. server'[b] = server[b] \/ (server[b] = "none" /\ server'[b] = "bind")
    BY <1>1, <1>5 DEF SpawnServer, Unstarted, Types, RecvTypes
  <2> QED
    BY <2>1, <2>2, PipelineFrame
<1>6. CASE StartThreads
  <2>1. UNCHANGED <<socket, hand, slot, taken, made, server, copy>>
    BY <1>6 DEF StartThreads, slotVars, recvVars, mcuVars
  <2>2. \A i \in 1..Entries : thread'[i] \notin {"tail", "clear"}
    BY <1>6 DEF StartThreads
  <2> QED
    BY <2>1, <2>2, PipelineFrame
<1>7. CASE CfgClear
  <2>1. UNCHANGED <<socket, hand, taken, made, server, thread>>
    BY <1>7 DEF CfgClear, recvVars, mcuVars
  <2>2. \A i \in 1..Entries : copy'[i] = copy[i] /\ thread[i] = "off"
    BY <1>2, <1>7 DEF CfgClear, Types, ThreadTypes, Control
  <2>3. CASE CfgArray[ComHere] # b
    <3>1. slot'[b] = slot[b]
      BY <1>7, <2>3 DEF CfgClear, Clear, Types, SlotTypes
    <3> QED
      BY <2>1, <2>2, <3>1, PipelineFrame
  <2>4. CASE CfgArray[ComHere] = b /\ b \in GuardedBuses
    <3>1. CfgSem[ComHere] = b
      BY <1>7, <2>4, RunningComs DEF CfgClear, Busy, GuardedBuses
    <3>2. IniHolds(b)
      BY <1>7, <3>1 DEF CfgClear, IniHolds, Inside
    <3>3. server[b] \notin {"head", "tail"}
      BY <1>1, <3>2
         DEF Exclusive, NobodyHolds, Held, ServerOnly, ListenerOnly, IniOnly, Inside
    <3>4. slot'[b] = Cleared
      BY <1>1, <1>7, <2>4 DEF CfgClear, Clear, Types, SlotTypes
    <3>5. OwnFrames(c) /\ Ordered(c) /\ Whole(c)
      BY <2>4 DEF Pipeline
    <3>6. OwnFrames(c)' /\ Whole(c)'
      BY <2>1, <2>2, <3>3, <3>4, <3>5 DEF OwnFrames, Whole, Cleared, Holding
    <3>7. Ordered(c)'
      <4>1. slot'[b].head = NoFrame /\ slot'[b].head.n = 0
        BY <3>4 DEF Cleared, NoFrame
      <4>2. taken[c] \in Nat /\ made[c] \in Nat /\ hand[b].n \in Nat
        BY FrameNumbers
      <4>3. ASSUME NEW k \in DOMAIN socket[b]
            PROVE  socket[b][k].n \in Nat /\ 0 < socket[b][k].n
        <5>1. taken[c] < socket[b][k].n
          BY <3>5 DEF Ordered
        <5>2. socket[b][k].n \in Nat
          BY FrameNumbers
        <5> QED
          BY <4>2, <5>1, <5>2
      <4>4. server[b] \in Holding => 0 < hand[b].n
        BY <3>5, <4>2 DEF Ordered
      <4> QED
        BY <2>1, <3>3, <3>5, <4>1, <4>2, <4>3, <4>4 DEF Ordered, Holding
    <3> QED
      BY <3>6, <3>7 DEF Pipeline
  <2>5. CASE b \notin GuardedBuses
    BY <2>5 DEF Pipeline, GuardedBuses
  <2> QED
    BY <2>3, <2>4, <2>5
<1> QED
  BY <1>3, <1>4, <1>5, <1>6, <1>7 DEF Initialiser

\* The server task takes the oldest frame, and writes it when nobody reads.
LEMMA PipelineServer ==
    ASSUME Types, Control, Next, \A b \in Buses : Exclusive(b) /\ Unstarted(b),
           NEW c \in Coms, Pipeline(c), NEW d \in Buses, ServerTask(d)
    PROVE  Pipeline(c)'
<1> DEFINE b == ServerBus[c]
           q == socket[b]
<1>1. b \in Buses
  BY Tables
<1>2. UNCHANGED <<taken, made, thread, copy>> /\ \A j : Com(j)' = Com(j)
  BY OnlyInitialiser DEF ServerTask, Bind, RecvFails, Recv, CallbackWait, CallbackHead,
         CallbackTail, mcuVars, threadVars, Com
<1>3. CASE d # b
  <2>1. /\ socket'[b] = socket[b] /\ hand'[b] = hand[b] /\ slot'[b] = slot[b]
        /\ server'[b] = server[b]
    BY <1>1, <1>3 DEF ServerTask, Bind, RecvFails, Recv, CallbackWait, CallbackHead,
         CallbackTail, ServerGoto, slotVars, Types, RecvTypes, SlotTypes
  <2> QED
    BY <1>2, <2>1, PipelineFrame
<1>4. CASE d = b /\ (Bind(b) \/ RecvFails(b) \/ CallbackWait(b))
  <2>1. UNCHANGED <<socket, hand, slot>>
    BY <1>4 DEF Bind, RecvFails, CallbackWait, slotVars
  <2>2. \/ server[b] \in {"bind", "recv"} /\ server'[b] \in {"recv", "dead"}
        \/ server[b] = "wait" /\ server'[b] = "head"
    BY <1>1, <1>4 DEF Bind, RecvFails, CallbackWait, ServerGoto, Types, RecvTypes
  <2> QED
    BY <1>2, <2>1, <2>2, PipelineFrame
<1>5. ASSUME d = b, b \in GuardedBuses, Recv(b) \/ CallbackHead(b) \/ CallbackTail(b)
      PROVE  OwnFrames(c)' /\ Ordered(c)' /\ Whole(c)'
  <2>1. OwnFrames(c) /\ Ordered(c) /\ Whole(c)
    BY <1>5 DEF Pipeline
  <2>2. /\ taken[c] \in Nat /\ made[c] \in Nat /\ slot[b].head.n \in Nat
        /\ hand[b].n \in Nat /\ q \in Seq(Frames)
        /\ slot[b].head \in Frames \cup {NoFrame} /\ slot[b] \in Slots
    BY FrameNumbers
  <2>3. CASE Recv(b)
    <3>1. slot' = slot /\ q # << >> /\ socket'[b] = Tail(q) /\ server[b] = "recv"
      BY <1>1, <2>3 DEF Recv, slotVars, Types, RecvTypes
    <3>2. /\ 1 \in DOMAIN q /\ Head(q) = q[1] /\ q[1] \in Frames
          /\ \A k \in DOMAIN Tail(q) : k + 1 \in DOMAIN q /\ k + 1 > 1 /\ k \in Nat
                                         /\ Tail(q)[k] = q[k + 1]
      BY <2>2, <3>1, SequenceIndices
    <3>3. \/ server'[b] = "wait" /\ hand'[b] = q[1]
          \/ server'[b] = "recv"
      BY <1>1, <2>3, <3>1, <3>2 DEF Recv, ServerGoto, Types, RecvTypes
    <3>4. OwnFrames(c)'
      BY <2>1, <3>1, <3>2, <3>3 DEF OwnFrames, Holding
    <3>5. Whole(c)'
      BY <1>2, <2>1, <3>1, <3>3 DEF Whole
    <3>6. /\ taken[c] < q[1].n /\ slot[b].head.n < q[1].n /\ q[1].n <= made[c]
          /\ \A k \in DOMAIN Tail(q) :
               /\ taken[c] < Tail(q)[k].n /\ slot[b].head.n < Tail(q)[k].n
               /\ Tail(q)[k].n <= made[c] /\ q[1].n < Tail(q)[k].n
      BY <2>1, <3>2 DEF Ordered
    <3>7. \A k, l \in DOMAIN Tail(q) : k < l => Tail(q)[k].n < Tail(q)[l].n
      <4> SUFFICES ASSUME NEW k \in DOMAIN Tail(q), NEW l \in DOMAIN Tail(q), k < l
                   PROVE  q[k + 1].n < q[l + 1].n
        BY <3>2
      <4>1. k + 1 \in DOMAIN q /\ l + 1 \in DOMAIN q /\ k \in Nat /\ l \in Nat
        BY <3>2
      <4>2. k + 1 < l + 1
        BY <4>1
      <4> QED
        BY <2>1, <4>1, <4>2 DEF Ordered
    <3>8. Ordered(c)'
      BY <1>2, <2>1, <3>1, <3>3, <3>6, <3>7 DEF Ordered, Holding
    <3> QED
      BY <3>4, <3>5, <3>8
  <2>4. CASE CallbackHead(b)
    <3>1. /\ socket' = socket /\ hand' = hand
          /\ server[b] = "head" /\ server'[b] = "tail"
          /\ slot'[b].head = hand[b]
      BY <1>1, <2>2, <2>4 DEF CallbackHead, ServerGoto, Types, RecvTypes, SlotTypes, Slots
    <3>2. hand[b] \in Frames /\ hand[b].com = c
      BY <2>1, <3>1 DEF OwnFrames, Holding
    <3>3. OwnFrames(c)'
      BY <2>1, <3>1, <3>2 DEF OwnFrames, Holding
    <3>4. Ordered(c)'
      BY <1>2, <2>1, <3>1 DEF Ordered, Holding
    <3>5. ServerOnly(b)
      BY <1>1, <3>1 DEF Exclusive, NobodyHolds, Held, ListenerOnly, IniOnly, Inside
    <3>6. \A i \in 1..Entries : Com(i) = c => thread[i] \notin {"tail", "clear"}
      BY <3>5, Tables DEF ServerOnly, ListenerHolds, Inside
    <3>7. Whole(c)'
      BY <1>2, <3>1, <3>6 DEF Whole
    <3> QED
      BY <3>3, <3>4, <3>7
  <2>5. CASE CallbackTail(b)
    <3>1. /\ socket' = socket /\ server[b] = "tail" /\ server'[b] = "recv"
          /\ slot'[b].head = slot[b].head /\ slot'[b].tail = hand[b]
      BY <1>1, <2>2, <2>5 DEF CallbackTail, ServerGoto, Types, RecvTypes, SlotTypes, Slots
    <3>2. slot[b].head = hand[b]
      BY <2>1, <3>1 DEF Whole
    <3>3. OwnFrames(c)'
      BY <2>1, <3>1 DEF OwnFrames, Holding
    <3>4. Ordered(c)'
      BY <1>2, <2>1, <3>1 DEF Ordered, Holding
    <3>5. ServerOnly(b)
      BY <1>1, <3>1 DEF Exclusive, NobodyHolds, Held, ListenerOnly, IniOnly, Inside
    <3>6. \A i \in 1..Entries : Com(i) = c => thread[i] \notin {"tail", "clear"}
      BY <3>5, Tables DEF ServerOnly, ListenerHolds, Inside
    <3>7. Whole(c)'
      BY <1>2, <3>1, <3>2, <3>6 DEF Whole
    <3> QED
      BY <3>3, <3>4, <3>7
  <2> QED
    BY <1>5, <2>3, <2>4, <2>5
<1> QED
  BY <1>3, <1>4, <1>5 DEF ServerTask, Pipeline, GuardedBuses

\* A listener copies what stays, and takes a whole frame newer than the last one.
LEMMA PipelineThreads ==
    ASSUME Types, Control, Next, \A b \in Buses : Exclusive(b) /\ Unstarted(b),
           NEW c \in Coms, Pipeline(c), NEW i \in 1..Entries, EntryThread(i)
    PROVE  Pipeline(c)'
<1> DEFINE b == ServerBus[c]
<1>1. b \in Buses
  BY Tables
<1>2. UNCHANGED <<socket, hand, server, made>> /\ \A j : Com(j)' = Com(j)
  BY OnlyInitialiser DEF EntryThread, ListenWait, ListenHead, ListenTail, ListenClear,
         Send, Enqueue, recvVars, mcuVars, Com
<1>3. \A j \in 1..Entries \ {i} : thread'[j] = thread[j] /\ copy'[j] = copy[j]
  <2>1. \A j \in 1..Entries \ {i} : thread'[j] = thread[j]
    BY DEF EntryThread, ListenWait, ListenHead, ListenTail, ListenClear, Send, Enqueue,
           ThreadGoto, Types, ThreadTypes
  <2>2. 1..Entries \subseteq 0..Entries
    BY CanGatewayAssumption
  <2>3. \A j \in 0..Entries \ {i} : copy'[j] = copy[j]
    BY DEF EntryThread, ListenWait, ListenHead, ListenTail, ListenClear, Send, Enqueue,
           CopyHead, CopyTail, Types, ThreadTypes
  <2> QED
    BY <2>1, <2>2, <2>3
<1>4. Com(i) \in Coms
  BY RunningComs DEF EntryThread, ListenWait, ListenHead, ListenTail, ListenClear, Send,
         Enqueue
<1>5. CASE Com(i) # c
  <2>1. DataBus[Com(i)] # b
    BY <1>4, <1>5, Tables
  <2>2. slot'[b] = slot[b] /\ taken'[c] = taken[c]
    BY <1>1, <1>5, <2>1 DEF EntryThread, ListenWait, ListenHead, ListenTail,
         ListenClear, Send, Enqueue, Clear, slotVars, Types, SlotTypes, ThreadTypes
  <2> QED
    BY <1>2, <1>3, <1>5, <2>2, PipelineFrame
<1>6. CASE ListenWait(i) \/ Send(i) \/ Enqueue(i)
  <2>1. UNCHANGED <<slot, taken>> /\ thread'[i] \notin {"tail", "clear"}
    BY <1>6 DEF ListenWait, Send, Enqueue, ThreadGoto, slotVars, Types, ThreadTypes
  <2> QED
    BY <1>2, <1>3, <2>1, PipelineFrame
<1>7. ASSUME Com(i) = c, b \in GuardedBuses, ListenHead(i) \/ ListenTail(i) \/ ListenClear(i)
      PROVE  OwnFrames(c)' /\ Ordered(c)' /\ Whole(c)'
  <2>1. OwnFrames(c) /\ Ordered(c) /\ Whole(c)
    BY <1>7 DEF Pipeline
  <2>2. DataBus[Com(i)] = b
    BY <1>7, Tables
  <2>3. ListenerHolds(i, b)
    BY <1>7, <2>2 DEF ListenHead, ListenTail, ListenClear, ListenerHolds, Inside
  <2>4. server[b] \notin {"head", "tail"}
    BY <1>1, <2>3
       DEF Exclusive, NobodyHolds, Held, ServerOnly, ListenerOnly, IniOnly, Inside
  <2>5. \A j \in 1..Entries : ListenerHolds(j, b) => j = i
    BY <1>1, <2>3
       DEF Exclusive, NobodyHolds, Held, ServerOnly, ListenerOnly, IniOnly, Inside
  <2>6. \A j \in 1..Entries \ {i} : Com(j) = c => thread[j] \notin {"tail", "clear"}
    BY <2>5, Tables DEF ListenerHolds, Inside
  <2>7. slot[b].head = slot[b].tail
    BY <2>1, <2>4 DEF Whole
  <2>8. i \in 0..Entries /\ copy[i] \in Slots /\ slot[b] \in Slots
    BY <1>1, CanGatewayAssumption DEF Types, ThreadTypes, SlotTypes
  <2>9. CASE ListenHead(i) \/ ListenTail(i)
    <3>1. UNCHANGED <<slot, taken>>
      BY <2>9 DEF ListenHead, ListenTail, slotVars
    <3>2. OwnFrames(c)'
      BY <1>2, <2>1, <3>1 DEF OwnFrames
    <3>3. Ordered(c)'
      BY <1>2, <2>1, <3>1 DEF Ordered
    <3>4. CASE ListenHead(i)
      <4>1. thread'[i] = "tail" /\ copy'[i].head = slot[b].head
        BY <2>2, <2>8, <3>4 DEF ListenHead, ThreadGoto, CopyHead, Types, ThreadTypes, Slots
      <4> QED
        BY <1>2, <1>3, <2>1, <2>6, <3>1, <3>2, <3>3, <4>1 DEF Whole
    <3>5. CASE ListenTail(i)
      <4>1. thread[i] = "tail" /\ thread'[i] = "clear"
        BY <3>5 DEF ListenTail, ThreadGoto, Types, ThreadTypes
      <4>2. copy[i].head = slot[b].head
        BY <1>7, <2>1, <4>1 DEF Whole
      <4>3. copy'[i] = [copy[i] EXCEPT !.tail = slot[b].tail]
        BY <2>2, <2>8, <3>5 DEF ListenTail, CopyTail, Types, ThreadTypes
      <4>4. copy'[i] = slot[b]
        BY <2>8, <4>2, <4>3 DEF Slots
      <4> QED
        BY <1>2, <1>3, <2>1, <2>6, <3>1, <3>2, <3>3, <4>1, <4>4 DEF Whole
    <3> QED
      BY <2>9, <3>4, <3>5
  <2>10. CASE ListenClear(i)
    <3>1. thread[i] = "clear" /\ thread'[i] = "wait" /\ slot'[b] = Cleared
      BY <1>1, <2>2, <2>10
         DEF ListenClear, ThreadGoto, Clear, Types, ThreadTypes, SlotTypes
    <3>2. copy[i] = slot[b]
      BY <1>7, <2>1, <3>1 DEF Whole
    <3>3. OwnFrames(c)'
      BY <1>2, <2>1, <3>1 DEF OwnFrames, Cleared
    <3>4. Whole(c)'
      BY <1>2, <1>3, <2>4, <2>6, <3>1 DEF Whole, Cleared
    <3>5. taken'[c] = IF slot[b] = Cleared THEN taken[c] ELSE slot[b].head.n
      BY <1>7, <2>10, <3>2 DEF ListenClear, Types, ThreadTypes
    <3>6. slot[b] # Cleared => slot[b].head # NoFrame
      BY <2>7, <2>8 DEF Slots, Cleared
    <3>7. slot'[b].head = NoFrame /\ slot'[b].head.n = 0
      BY <3>1 DEF Cleared, NoFrame
    <3>8. /\ taken[c] \in Nat /\ made[c] \in Nat /\ slot[b].head.n \in Nat
          /\ hand[b].n \in Nat
      BY FrameNumbers
    <3>9. taken'[c] \in Nat /\ taken'[c] <= made[c] /\ taken[c] <= made[c]
      BY <2>1, <3>5, <3>8 DEF Ordered
    <3>10. server[b] \in Holding => taken'[c] < hand[b].n /\ hand[b].n <= made[c]
      BY <2>1, <2>4, <3>5, <3>8 DEF Ordered, Holding
    <3>11. ASSUME NEW k \in DOMAIN socket[b]
           PROVE  taken'[c] < socket[b][k].n /\ 0 < socket[b][k].n
      <4>1. taken[c] < socket[b][k].n /\ slot[b].head.n < socket[b][k].n
        BY <2>1 DEF Ordered
      <4>2. socket[b][k].n \in Nat
        BY FrameNumbers
      <4> QED
        BY <3>5, <3>8, <4>1, <4>2
    <3>12. server[b] \in {"wait", "head"} => 0 < hand[b].n
      BY <2>1, <3>8 DEF Ordered, Holding
    <3>13. Ordered(c)'
      BY <1>2, <2>1, <3>7, <3>8, <3>9, <3>10, <3>11, <3>12 DEF Ordered, Holding
    <3> QED
      BY <3>3, <3>4, <3>13
  <2> QED
    BY <1>7, <2>9, <2>10
<1> QED
  BY <1>5, <1>6, <1>7 DEF EntryThread, Pipeline, GuardedBuses

\* The MCU's frames are numbered upwards.
LEMMA PipelineMcu ==
    ASSUME Types, Next, NEW c \in Coms, Pipeline(c), NEW d \in Coms, McuSend(d)
    PROVE  Pipeline(c)'
<1> DEFINE b == ServerBus[c]
           q == socket[b]
<1>1. b \in Buses /\ ServerBus[d] \in Buses
  BY Tables
<1>2. UNCHANGED <<hand, slot, taken, server, thread, copy>>
      /\ \A j : Com(j)' = Com(j)
  BY OnlyInitialiser DEF McuSend, slotVars, threadVars, Com
<1>3. CASE d # c
  <2>1. ServerBus[d] # b
    BY <1>3, Tables
  <2>2. socket'[b] = socket[b] /\ made'[c] = made[c]
    BY <1>1, <1>3, <2>1 DEF McuSend, Types, RecvTypes, McuTypes
  <2> QED
    BY <1>2, <2>2, PipelineFrame
<1>4. ASSUME d = c, b \in GuardedBuses
      PROVE  OwnFrames(c)' /\ Ordered(c)' /\ Whole(c)'
  <2> DEFINE f == [com |-> c, n |-> made[c] + 1, cfg |-> mcu[c] = "asked"]
  <2>1. OwnFrames(c) /\ Ordered(c) /\ Whole(c)
    BY <1>4 DEF Pipeline
  <2>2. /\ taken[c] \in Nat /\ made[c] \in Nat /\ slot[b].head.n \in Nat
        /\ hand[b].n \in Nat /\ q \in Seq(Frames)
        /\ \A k \in DOMAIN q : q[k].n \in Nat
    BY FrameNumbers
  <2>3. f \in Frames /\ f.n = made[c] + 1 /\ f.com = c
    BY <2>2 DEF Frames, Types, McuTypes
  <2> HIDE DEF f
  <2>4. made'[c] = made[c] + 1 /\ (socket'[b] = q \/ socket'[b] = Append(q, f))
    BY <1>1, <1>4 DEF McuSend, f, Types, RecvTypes, McuTypes
  <2>5. \A k \in DOMAIN socket'[b] :
          \/ k \in DOMAIN q /\ k < Len(q) + 1 /\ socket'[b][k] = q[k]
          \/ k = Len(q) + 1 /\ socket'[b][k] = f
    <3>1. \A k \in DOMAIN q : k < Len(q) + 1
      BY <2>2
    <3>2. \A k \in DOMAIN Append(q, f) :
              \/ k \in DOMAIN q /\ k < Len(q) + 1 /\ Append(q, f)[k] = q[k]
              \/ k = Len(q) + 1 /\ Append(q, f)[k] = f
      BY <2>2, <2>3, SequenceIndices
    <3> HIDE DEF q
    <3>3. CASE socket'[b] = q
      BY <3>1, <3>3
    <3>4. CASE socket'[b] = Append(q, f)
      BY <3>2, <3>4
    <3> QED
      BY <2>4, <3>3, <3>4
  <2>6. OwnFrames(c)'
    BY <1>2, <2>1, <2>3, <2>5 DEF OwnFrames
  <2>7. Whole(c)'
    BY <1>2, <2>1 DEF Whole
  <2>8. /\ taken[c] <= made'[c] /\ slot[b].head.n <= made'[c]
        /\ server[b] \in Holding => hand[b].n <= made'[c]
    BY <2>1, <2>2, <2>4 DEF Ordered
  <2>9. ASSUME NEW k \in DOMAIN socket'[b]
        PROVE  /\ taken[c] < socket'[b][k].n /\ slot[b].head.n < socket'[b][k].n
               /\ socket'[b][k].n <= made'[c]
               /\ server[b] \in Holding => hand[b].n < socket'[b][k].n
    <3>1. CASE k \in DOMAIN q /\ socket'[b][k] = q[k]
      BY <2>1, <2>2, <2>4, <3>1 DEF Ordered
    <3>2. CASE socket'[b][k] = f
      BY <2>1, <2>2, <2>3, <2>4, <3>2 DEF Ordered
    <3> QED
      BY <2>5, <3>1, <3>2
  <2>10. ASSUME NEW k \in DOMAIN socket'[b], NEW l \in DOMAIN socket'[b], k < l
         PROVE  socket'[b][k].n < socket'[b][l].n
    <3>1. k \in DOMAIN q /\ k \in Nat /\ socket'[b][k] = q[k]
      <4>1. k # Len(q) + 1
        <5> SUFFICES ASSUME k = Len(q) + 1 PROVE FALSE
          OBVIOUS
        <5>1. l <= Len(q) + 1 /\ l \in Nat
          BY <2>2, <2>5
        <5> QED
          BY <2>2, <2>10, <5>1
      <4> QED
        BY <2>2, <2>5, <4>1
    <3>2. q[k].n <= made[c]
      BY <2>1, <3>1 DEF Ordered
    <3>3. CASE l \in DOMAIN q /\ socket'[b][l] = q[l]
      BY <2>1, <2>10, <3>1, <3>3 DEF Ordered
    <3>4. CASE socket'[b][l] = f
      BY <2>2, <2>3, <3>1, <3>2, <3>4
    <3> QED
      BY <2>5, <3>3, <3>4
  <2>11. Ordered(c)'
    BY <1>2, <2>1, <2>8, <2>9, <2>10 DEF Ordered
  <2> QED
    BY <2>6, <2>7, <2>11
<1> QED
  BY <1>3, <1>4 DEF Pipeline, GuardedBuses

LEMMA PipelineNext ==
    ASSUME Types, Control, Next, \A b \in Buses : Exclusive(b) /\ Unstarted(b),
           NEW c \in Coms, Pipeline(c)
    PROVE  Pipeline(c)'
<1>1. ASSUME NEW d \in Coms, ClientSend(d) \/ ClientFails(d) PROVE Pipeline(c)'
  <2>1. UNCHANGED <<socket, hand, slot, taken, made, server, thread, copy>>
    BY <1>1 DEF ClientSend, ClientFails, slotVars, recvVars, mcuVars, threadVars
  <2> QED
    BY <2>1, PipelineFrame
<1> QED
  BY <1>1, PipelineInitialiser, PipelineServer, PipelineThreads, PipelineMcu DEF Next

\* The semaphore and the order of the frames give what a listener may rely on.
LEMMA FreshLemma ==
    ASSUME Types, Control, \A b \in Buses : Exclusive(b) /\ Unstarted(b),
           \A c \in Coms : Pipeline(c)
    PROVE  CopyIsFreshFrame
<1> SUFFICES ASSUME NEW i \in 1..Entries, thread[i] = "clear",
                    DataBus[Com(i)] \in GuardedBuses, copy[i] # Cleared
             PROVE  /\ copy[i].tail = copy[i].head /\ copy[i].head.com = Com(i)
                    /\ copy[i].head.n > taken[Com(i)]
  BY DEF CopyIsFreshFrame
<1> DEFINE c == Com(i)
           b == ServerBus[c]
<1>1. c \in Coms /\ b \in Buses /\ DataBus[c] = b
  BY RunningComs, Tables
<1>2. OwnFrames(c) /\ Ordered(c) /\ Whole(c)
  BY <1>1 DEF Pipeline
<1>3. server[b] \notin {"head", "tail"}
  <2>1. ListenerHolds(i, b)
    BY <1>1 DEF ListenerHolds, Inside
  <2> QED
    BY <1>1, <2>1
       DEF Exclusive, NobodyHolds, Held, ServerOnly, ListenerOnly, IniOnly, Inside
<1>4. slot[b].head = slot[b].tail /\ copy[i] = slot[b]
  BY <1>2, <1>3 DEF Whole
<1>5. slot[b].head # NoFrame
  <2>1. slot[b] \in Slots
    BY <1>1, FrameNumbers
  <2> QED
    BY <1>4, <2>1 DEF Slots, Cleared
<1>6. slot[b].head.com = c /\ taken[c] < slot[b].head.n
  BY <1>2, <1>5 DEF OwnFrames, Ordered
<1>7. taken[c] \in Nat /\ slot[b].head.n \in Nat
  BY <1>1, FrameNumbers
<1> QED
  BY <1>4, <1>6, <1>7

-----------------------------------------------------------------------------
(* The theorems.                                                           *)

LEMMA InvInit == Init => IInv
<1> SUFFICES ASSUME Init PROVE IInv
  OBVIOUS
<1>1. Types /\ Control
  BY TypesInit
<1>2. ASSUME NEW b \in Buses PROVE Exclusive(b) /\ Unstarted(b)
  <2>1. ini \notin Busy /\ ini \notin Inside
    BY DEF Init, Busy, Inside
  <2>2. ~Ready(b)
    BY <2>1 DEF Ready, Init
  <2>3. ~Held(b)
    BY <2>1 DEF Held, Init, ListenerHolds, IniHolds, Inside
  <2> QED
    BY <2>2, <2>3 DEF Init, Exclusive, Unstarted, NobodyHolds
<1>3. ASSUME NEW c \in Coms PROVE Pipeline(c)
  <2>1. ServerBus[c] \in Buses
    BY Tables
  <2> QED
    BY <2>1 DEF Init, Pipeline, OwnFrames, Ordered, Whole, Holding, Cleared, NoFrame
<1>4. ASSUME NEW c \in Coms PROVE Sends(c)
  BY CanGatewayAssumption DEF Init, Sends, Request, Dead, Flagged
<1> QED
  BY <1>1, <1>2, <1>3, <1>4 DEF IInv

LEMMA InvNext == IInv /\ [Next]_vars => IInv'
<1> SUFFICES ASSUME IInv, [Next]_vars PROVE IInv'
  OBVIOUS
<1>1. CASE Next
  <2>1. Types' /\ Control'
    BY <1>1, TypesNext, ControlNext DEF IInv
  <2>2. \A b \in Buses : Exclusive(b)' /\ Unstarted(b)'
    BY <1>1, ExclusiveNext, UnstartedNext DEF IInv
  <2>3. \A c \in Coms : Pipeline(c)'
    BY <1>1, PipelineNext DEF IInv
  <2>4. \A c \in Coms : Sends(c)'
    BY <1>1, SendsNext DEF IInv
  <2> QED
    BY <2>1, <2>2, <2>3, <2>4 DEF IInv
<1>2. CASE UNCHANGED vars
  <2>1. UNCHANGED <<table, entry, ini, flag, accepted, callback, server, hand, socket,
                    sem, slot, queueOk, queue, client, sent, mcu, made, thread, copy,
                    taken, passed, faults>>
    BY <1>2 DEF vars, iniVars, recvVars, slotVars, sendVars, mcuVars, threadVars
  <2>2. Types' /\ Control'
    BY <2>1 DEF IInv, Types, IniTypes, SlotTypes, RecvTypes, SendTypes, McuTypes,
         ThreadTypes, FaultTypes, Control, Valid, ComHere, Com
  <2>3. \A b \in Buses : Exclusive(b)' /\ Unstarted(b)'
    BY <2>1 DEF IInv, Exclusive, Unstarted, Ready, NobodyHolds, Held, ServerOnly,
         ListenerOnly, IniOnly, ListenerHolds, IniHolds, BusHere, ComHere, Com
  <2>4. \A c \in Coms : Pipeline(c)'
    BY <2>1 DEF IInv, Pipeline, OwnFrames, Ordered, Whole, Com
  <2>5. \A c \in Coms : Sends(c)'
    BY <2>1 DEF IInv, Sends, Request, Dead, Flagged, Com
  <2> QED
    BY <2>2, <2>3, <2>4, <2>5 DEF IInv
<1> QED
  BY <1>1, <1>2

LEMMA Invariance == Spec => []IInv
  BY InvInit, InvNext, PTL DEF Spec

\* Every variable keeps its type; in particular no semaphore ever exceeds one.
THEOREM TypeCorrect == Spec => []TypeOK
<1>1. IInv => TypeOK
  <2> SUFFICES ASSUME IInv PROVE TypeOK
    OBVIOUS
  <2>1. \A b \in Buses : sem[b] \in {0, 1}
    BY DEF IInv, Exclusive
  <2>2. sem \in [Buses -> {0, 1}]
    BY <2>1 DEF IInv, Types, SlotTypes
  <2> QED
    BY <2>2 DEF IInv, Types, IniTypes, SlotTypes, RecvTypes, SendTypes, McuTypes,
         ThreadTypes, FaultTypes, TypeOK
<1> QED
  BY <1>1, Invariance, PTL

\* A listener or a server task never waits for a semaphore that is neither free nor
\* held by a thread that will post it (sem_wait in appCanDataRecv, mcmMain.c).
THEOREM WaitersServed == Spec => []WaitersAreServed
<1>1. IInv => WaitersAreServed
  BY WaitersLemma DEF IInv
<1> QED
  BY <1>1, Invariance, PTL

\* What a listener takes out of the array of a guarded bus is one whole frame of that
\* bus, newer than every frame taken before, however tasks and threads interleave.
THEOREM FreshFrames == Spec => []CopyIsFreshFrame
<1>1. IInv => CopyIsFreshFrame
  BY FreshLemma DEF IInv
<1> QED
  BY <1>1, Invariance, PTL

\* At most as many frames as the queue holds are reported as sent and have not left,
\* or one more when the client task has lost it and ended (appCanDataSendFunc,
\* udp_Client.c): the request that is queued first is not counted on either side.
THEOREM SendsBounded == Spec => []SendsLostBounded
<1>1. IInv => SendsLostBounded
  BY SendsBound DEF IInv
<1> QED
  BY <1>1, Invariance, PTL
=============================================================================
