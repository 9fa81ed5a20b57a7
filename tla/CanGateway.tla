----------------------------- MODULE CanGateway -----------------------------
(***************************************************************************)
(* The CAN path of a node.  The eight CAN buses hang on a microcontroller  *)
(* (MCU) that is reached over UDP.  For each CAN entry of the interface    *)
(* table the initialiser (initializer_closer_lib.c, can_app.c) makes a     *)
(* semaphore, a server task that receives the frames of the bus            *)
(* (udp_Server.c), a message queue and a client task that sends what is    *)
(* queued (udp_Client.c), and asks the MCU to configure the bus.  A frame  *)
(* that arrives is copied by a callback (mcmMain.c) into the one-slot      *)
(* array of its bus, from which the listening thread copies and clears it  *)
(* (can_app.c, can_fpu_recv_send.c).  Each array has a semaphore.          *)
(*                                                                         *)
(* An array is modelled by two halves, so that a copy takes two steps and  *)
(* a frame could be torn.  The MCU numbers the frames it sends.            *)
(***************************************************************************)
EXTENDS Integers, Sequences

CONSTANTS
    Entries,     \* number of CAN entries of the interface table
    Configs,     \* the configurations: com, mode and validity of the bit rate
    MaxFrames,   \* for each com, the bound on the frames of the MCU
    MaxSends,    \* bound on the frames sent on each bus
    QueueMax,    \* messages that fit into a message queue
    SocketMax,   \* bound on the datagrams waiting in a socket
    MaxFaults    \* bound on failing system calls

Modes == {"test", "listen"}
Coms  == 1..8
Buses == {"Can1", "Can2", "Can3", "Can4", "Can5", "Fd1", "Fd2", "Fd3"}

ASSUME CanGatewayAssumption ==
    /\ {Entries, MaxSends, MaxFaults} \subseteq Nat
    /\ {QueueMax, SocketMax} \subseteq Nat \ {0}
    /\ MaxFrames \in [Coms -> Nat]
    /\ Configs \subseteq
         [1..Entries -> [com : Nat, mode : Modes, rateOk : BOOLEAN]]

\* The bus whose semaphore, server task and callback serve a com: initComUdpServer.
ServerBus == <<"Fd1", "Can2", "Fd3", "Can4", "Fd2", "Can3", "Can1", "Can5">>

\* Mutant: the rows are those of the table of appCanCfgDataRecv.
DataBusOfResponses == <<"Fd1", "Can3", "Can2", "Fd2", "Fd3", "Can5", "Can4", "Can1">>

\* The bus whose array the listener of a com reads: appCanDataRecv.
DataBus == <<"Fd1", "Can2", "Fd3", "Can4", "Fd2", "Can3", "Can1", "Can5">>

\* appCanCfgDataRecv has a table of its own, which differs from the others, and
\* for com 3 it takes the semaphore of one bus and reads the array of another.
CfgSem   == <<"Fd1", "Can3", "Can3", "Fd2", "Fd3", "Can5", "Can4", "Can1">>
CfgArray == <<"Fd1", "Can3", "Can2", "Fd2", "Fd3", "Can5", "Can4", "Can1">>

\* The buses whose array is only touched with their own semaphore.
GuardedBuses ==
    {b \in Buses : \A c \in Coms : CfgArray[c] = b => CfgSem[c] = b}

Frames  == [com : Coms, n : Nat \ {0}, cfg : BOOLEAN]
NoFrame == [com |-> 0, n |-> 0, cfg |-> FALSE]       \* a cleared array
Slots   == [head : Frames \cup {NoFrame}, tail : Frames \cup {NoFrame}]
Cleared == [head |-> NoFrame, tail |-> NoFrame]

VARIABLES
    table,     \* the configuration in force
    entry,     \* the entry the initialiser is at
    ini,       \* its program counter
    flag,      \* the entries whose initialized flag is 1
    accepted,  \* the entries whose initialiser returned success
    sem,       \* the semaphores: a static one is zero until it is initialised
    slot,      \* the one-slot arrays of the buses
    callback,  \* the buses whose callback is set
    server,    \* program counters of the server tasks
    hand,      \* the datagram a server task is handling
    socket,    \* datagrams waiting in the socket of a bus
    queueOk,   \* the coms whose msgget succeeded
    queue,     \* the message queues
    client,    \* states of the client tasks
    mcu,       \* state of the MCU's port: off, asked to configure, on
    made,      \* number of the last frame of the MCU on each com
    thread,    \* program counters of the threads of the entries
    copy,      \* what a listener, or the initialiser (0), has copied
    taken,     \* history: number of the last frame taken on each com
    passed,    \* history: frames accepted for sending on each com
    sent,      \* history: data frames the client task of each com has sent
    faults     \* system calls that have failed

iniVars    == <<entry, ini, flag, accepted>>
recvVars   == <<callback, server, hand, socket>>
slotVars   == <<sem, slot>>
sendVars   == <<queueOk, queue, client, sent>>
mcuVars    == <<mcu, made>>
threadVars == <<thread, copy, taken, passed>>
vars == <<table, iniVars, recvVars, slotVars, sendVars, mcuVars, threadVars, faults>>

IniPcs    == {"check", "sem", "server", "callback", "queue", "client", "request",
              "wait", "head", "tail", "clear", "start", "done"}
ServerPcs == {"none", "bind", "recv", "wait", "head", "tail", "dead"}
ThreadPcs == {"off", "wait", "head", "tail", "clear", "idle", "sending"}

TypeOK ==
    /\ table \in Configs
    /\ entry \in 1..(Entries + 1)
    /\ ini \in IniPcs
    /\ flag \subseteq 1..Entries
    /\ accepted \subseteq 1..Entries
    /\ sem \in [Buses -> {0, 1}]
    /\ slot \in [Buses -> Slots]
    /\ callback \subseteq Buses
    /\ server \in [Buses -> ServerPcs]
    /\ hand \in [Buses -> Frames \cup {NoFrame}]
    /\ socket \in [Buses -> Seq(Frames)]
    /\ queueOk \subseteq Coms
    /\ queue \in [Coms -> Seq({"cfg", "data"})]
    /\ client \in [Coms -> {"none", "up", "dead"}]
    /\ mcu \in [Coms -> {"off", "asked", "on"}]
    /\ made \in [Coms -> Nat]
    /\ thread \in [1..Entries -> ThreadPcs]
    /\ copy \in [0..Entries -> Slots]
    /\ taken \in [Coms -> Nat]
    /\ passed \in [Coms -> 0..MaxSends]
    /\ sent \in [Coms -> Nat]
    /\ faults \in 0..MaxFaults

\* A fresh process: its static data are zero, the MCU may have been configured
\* by an earlier one and may be sending.
Init ==
    /\ table \in Configs
    /\ entry = 1 /\ ini = IF Entries = 0 THEN "start" ELSE "check"
    /\ flag = {} /\ accepted = {}
    /\ sem = [b \in Buses |-> 0]
    /\ slot = [b \in Buses |-> Cleared]
    /\ callback = {}
    /\ server = [b \in Buses |-> "none"]
    /\ hand = [b \in Buses |-> NoFrame]
    /\ socket = [b \in Buses |-> << >>]
    /\ queueOk = {}
    /\ queue = [c \in Coms |-> << >>]
    /\ client = [c \in Coms |-> "none"]
    /\ \E state \in {"off", "on"} : mcu = [c \in Coms |-> state]
    /\ made = [c \in Coms |-> 0]
    /\ thread = [i \in 1..Entries |-> "off"]
    /\ copy = [i \in 0..Entries |-> Cleared]
    /\ taken = [c \in Coms |-> 0]
    /\ passed = [c \in Coms |-> 0]
    /\ sent = [c \in Coms |-> 0]
    /\ faults = 0

-----------------------------------------------------------------------------
(* The initialiser: can_fpu_initializer_normal and comCfgInit, entry by    *)
(* entry, then the start of the threads.                                   *)

Com(i)  == table[i].com
ComHere == Com(entry)
BusHere == ServerBus[ComHere]

Valid(i) == Com(i) \in Coms /\ table[i].rateOk

Goto(pc) == ini' = pc /\ UNCHANGED <<entry, flag, accepted>>

\* The loop over the entries ends with the start of the threads.
NextEntry ==
    /\ entry' = entry + 1
    /\ ini' = IF entry = Entries THEN "start" ELSE "check"

\* One more failing system call.
Fault == faults < MaxFaults /\ faults' = faults + 1

\* A channel that another entry has initialised is left alone.
AlreadyInitialised ==
    /\ ini = "check" /\ entry \in flag
    /\ accepted' = accepted \cup {entry}
    /\ NextEntry
    /\ UNCHANGED <<table, flag, recvVars, slotVars, sendVars, mcuVars,
                   threadVars, faults>>

\* Mutant: the flag is not looked at.
AcceptAgain ==
    /\ ini = "check" /\ Valid(entry)
    /\ Goto("sem")
    /\ UNCHANGED <<table, recvVars, slotVars, sendVars, mcuVars, threadVars, faults>>

\* com or the bit rate are refused: the entry is closed, no thread starts for it.
RefuseEntry ==
    /\ ini = "check" /\ entry \notin flag /\ ~Valid(entry)
    /\ NextEntry
    /\ UNCHANGED <<table, flag, accepted, recvVars, slotVars, sendVars, mcuVars,
                   threadVars, faults>>

AcceptParameters ==
    /\ ini = "check" /\ entry \notin flag /\ Valid(entry)
    /\ Goto("sem")
    /\ UNCHANGED <<table, recvVars, slotVars, sendVars, mcuVars, threadVars, faults>>

InitSemaphore ==
    /\ ini = "sem"
    /\ sem' = [sem EXCEPT ![BusHere] = 1]
    /\ Goto("server")
    /\ UNCHANGED <<table, recvVars, slot, sendVars, mcuVars, threadVars, faults>>

\* A task that cannot be created is reported and otherwise ignored.
SpawnServer ==
    /\ ini = "server"
    /\ \/ server' = [server EXCEPT ![BusHere] = "bind"] /\ UNCHANGED faults
       \/ Fault /\ UNCHANGED server
    /\ Goto("callback")
    /\ UNCHANGED <<table, callback, hand, socket, slotVars, sendVars, mcuVars,
                   threadVars>>

SetCallback ==
    /\ ini = "callback"
    /\ callback' = callback \cup {BusHere}
    /\ Goto("queue")
    /\ UNCHANGED <<table, server, hand, socket, slotVars, sendVars, mcuVars,
                   threadVars, faults>>

CreateQueue ==
    /\ ini = "queue"
    /\ \/ queueOk' = queueOk \cup {ComHere} /\ UNCHANGED faults
       \/ Fault /\ UNCHANGED queueOk
    /\ Goto("client")
    /\ UNCHANGED <<table, recvVars, slotVars, queue, client, sent, mcuVars, threadVars>>

SpawnClient ==
    /\ ini = "client"
    /\ \/ client' = [client EXCEPT ![ComHere] = "up"] /\ UNCHANGED faults
       \/ Fault /\ UNCHANGED client
    /\ Goto("request")
    /\ UNCHANGED <<table, recvVars, slotVars, queueOk, queue, sent, mcuVars, threadVars>>

\* All entries of the channel are flagged, comCanSTDCfgInit has succeeded.
FinishEntry ==
    /\ flag' = flag \cup {j \in 1..Entries : Com(j) = ComHere}
    /\ accepted' = accepted \cup {entry}
    /\ NextEntry

\* Mutant: the response is waited for when the request has been queued, too.
RequestAndWait ==
    /\ ini = "request"
    /\ IF ComHere \in queueOk
         THEN queue' = [queue EXCEPT ![ComHere] = Append(@, "cfg")]
         ELSE UNCHANGED queue
    /\ Goto("wait")
    /\ UNCHANGED <<table, recvVars, slotVars, queueOk, client, sent, mcuVars,
                   threadVars, faults>>

\* The request is queued, and the result of msgsnd is taken for the result of the
\* configuration: only a request that could not be queued makes comCfgInit wait
\* for the MCU's response, which cannot come then.
RequestConfiguration ==
    /\ ini = "request"
    /\ \/ /\ ComHere \in queueOk
          /\ Len(queue[ComHere]) < QueueMax
          /\ queue' = [queue EXCEPT ![ComHere] = Append(@, "cfg")]
          /\ FinishEntry
       \/ /\ ComHere \notin queueOk
          /\ Goto("wait")
          /\ UNCHANGED queue
    /\ UNCHANGED <<table, recvVars, slotVars, queueOk, client, sent, mcuVars,
                   threadVars, faults>>

-----------------------------------------------------------------------------
(* Copying out of an array: sem_wait, memcpy, memset, sem_post.  The holder *)
(* is a listener, or the initialiser with cfgResponseRecv.                 *)

TakeSem(b) == sem[b] > 0 /\ sem' = [sem EXCEPT ![b] = @ - 1]
PostSem(b) == sem' = [sem EXCEPT ![b] = @ + 1]

\* Mutant: the array is not cleared.
KeepSlot(b) == b \in Buses /\ UNCHANGED slot

CopyHead(r, b) == copy' = [copy EXCEPT ![r].head = slot[b].head]
CopyTail(r, b) == copy' = [copy EXCEPT ![r].tail = slot[b].tail]
Clear(b)       == slot' = [slot EXCEPT ![b] = Cleared]

CfgWait ==
    /\ ini = "wait" /\ TakeSem(CfgSem[ComHere])
    /\ Goto("head")
    /\ UNCHANGED <<table, recvVars, slot, sendVars, mcuVars, threadVars, faults>>

CfgHead ==
    /\ ini = "head" /\ CopyHead(0, CfgArray[ComHere])
    /\ Goto("tail")
    /\ UNCHANGED <<table, recvVars, slotVars, sendVars, mcuVars, thread, taken, passed,
                   faults>>

CfgTail ==
    /\ ini = "tail" /\ CopyTail(0, CfgArray[ComHere])
    /\ Goto("clear")
    /\ UNCHANGED <<table, recvVars, slotVars, sendVars, mcuVars, thread, taken, passed,
                   faults>>

\* The MCU's consent for this com ends the loop of comCfgInit.  Of the copy only
\* the bytes of the port and of the status are compared, its head is assigned to:
\* the bytes of a frame of data may read as a consent.
IsAnswer == copy[0].head.cfg /\ copy[0].tail.cfg

CfgClear ==
    /\ ini = "clear" /\ Clear(CfgArray[ComHere]) /\ PostSem(CfgSem[ComHere])
    /\ \/ /\ copy[0] # Cleared
          /\ IsAnswer => copy[0].head.com = ComHere
          /\ FinishEntry
       \/ /\ ~(IsAnswer /\ copy[0].head.com = ComHere)
          /\ Goto("wait")
    /\ copy' = [copy EXCEPT ![0] = Cleared]
    /\ UNCHANGED <<table, recvVars, sendVars, mcuVars, thread, taken, passed, faults>>

StartThreads ==
    /\ ini = "start"
    /\ thread' = [i \in 1..Entries |->
                    IF i \notin accepted THEN "off"
                    ELSE IF table[i].mode = "listen" THEN "wait" ELSE "idle"]
    /\ Goto("done")
    /\ UNCHANGED <<table, recvVars, slotVars, sendVars, mcuVars, copy, taken, passed,
                   faults>>

Initialiser ==
    \/ AlreadyInitialised \/ RefuseEntry \/ AcceptParameters
    \/ InitSemaphore \/ SpawnServer \/ SetCallback
    \/ CreateQueue \/ SpawnClient \/ RequestConfiguration
    \/ CfgWait \/ CfgHead \/ CfgTail \/ CfgClear \/ StartThreads

-----------------------------------------------------------------------------
(* The server task of a bus, with its callback.                            *)

ServerGoto(b, pc) == server' = [server EXCEPT ![b] = pc]

\* A task whose bind or recvfrom fails returns; nobody starts it again.
Bind(b) ==
    /\ server[b] = "bind"
    /\ \/ ServerGoto(b, "recv") /\ UNCHANGED faults
       \/ ServerGoto(b, "dead") /\ Fault
    /\ UNCHANGED <<table, iniVars, callback, hand, socket, slotVars, sendVars, mcuVars,
                   threadVars>>

RecvFails(b) ==
    /\ server[b] = "recv" /\ Fault
    /\ ServerGoto(b, "dead")
    /\ UNCHANGED <<table, iniVars, callback, hand, socket, slotVars, sendVars, mcuVars,
                   threadVars>>

\* Without a callback the frame is dropped.
Recv(b) ==
    /\ server[b] = "recv" /\ socket[b] # << >>
    /\ socket' = [socket EXCEPT ![b] = Tail(@)]
    /\ IF b \in callback
         THEN ServerGoto(b, "wait") /\ hand' = [hand EXCEPT ![b] = Head(socket[b])]
         ELSE UNCHANGED <<server, hand>>
    /\ UNCHANGED <<table, iniVars, callback, slotVars, sendVars, mcuVars, threadVars,
                   faults>>

\* Mutant: a frame is dropped when the semaphore is taken.
CallbackTry(b) ==
    /\ server[b] = "wait"
    /\ IF sem[b] > 0
         THEN TakeSem(b) /\ ServerGoto(b, "head") /\ UNCHANGED hand
         ELSE ServerGoto(b, "recv") /\ hand' = [hand EXCEPT ![b] = NoFrame] /\ UNCHANGED sem
    /\ UNCHANGED <<table, iniVars, callback, socket, slot, sendVars, mcuVars,
                   threadVars, faults>>

CallbackWait(b) ==
    /\ server[b] = "wait" /\ TakeSem(b)
    /\ ServerGoto(b, "head")
    /\ UNCHANGED <<table, iniVars, callback, hand, socket, slot, sendVars, mcuVars,
                   threadVars, faults>>

CallbackHead(b) ==
    /\ server[b] = "head"
    /\ slot' = [slot EXCEPT ![b].head = hand[b]]
    /\ ServerGoto(b, "tail")
    /\ UNCHANGED <<table, iniVars, callback, hand, socket, sem, sendVars, mcuVars,
                   threadVars, faults>>

CallbackTail(b) ==
    /\ server[b] = "tail"
    /\ slot' = [slot EXCEPT ![b].tail = hand[b]]
    /\ PostSem(b)
    /\ hand' = [hand EXCEPT ![b] = NoFrame]
    /\ ServerGoto(b, "recv")
    /\ UNCHANGED <<table, iniVars, callback, socket, sendVars, mcuVars, threadVars,
                   faults>>

ServerTask(b) ==
    \/ Bind(b) \/ RecvFails(b) \/ Recv(b)
    \/ CallbackWait(b) \/ CallbackHead(b) \/ CallbackTail(b)

-----------------------------------------------------------------------------
(* The threads of the entries.                                             *)

ThreadGoto(i, pc) == thread' = [thread EXCEPT ![i] = pc]

\* receive_packet_can_fpu calls appCanDataRecv again and again while the array is
\* empty; when it gives up, the listener's next call goes on in the same way.
\* The timeout passed to the semaphore's wait has no effect under Linux.
ListenWait(i) ==
    /\ thread[i] = "wait" /\ TakeSem(DataBus[Com(i)])
    /\ ThreadGoto(i, "head")
    /\ UNCHANGED <<table, iniVars, recvVars, slot, sendVars, mcuVars, copy, taken,
                   passed, faults>>

ListenHead(i) ==
    /\ thread[i] = "head" /\ CopyHead(i, DataBus[Com(i)])
    /\ ThreadGoto(i, "tail")
    /\ UNCHANGED <<table, iniVars, recvVars, slotVars, sendVars, mcuVars, taken, passed,
                   faults>>

ListenTail(i) ==
    /\ thread[i] = "tail" /\ CopyTail(i, DataBus[Com(i)])
    /\ ThreadGoto(i, "clear")
    /\ UNCHANGED <<table, iniVars, recvVars, slotVars, sendVars, mcuVars, taken, passed,
                   faults>>

\* A copy that is not all zeros is the frame received.
ListenClear(i) ==
    /\ thread[i] = "clear" /\ Clear(DataBus[Com(i)]) /\ PostSem(DataBus[Com(i)])
    /\ taken' = IF copy[i] = Cleared THEN taken
                ELSE [taken EXCEPT ![Com(i)] = copy[i].head.n]
    /\ copy' = [copy EXCEPT ![i] = Cleared]         \* handed over to a new thread
    /\ ThreadGoto(i, "wait")
    /\ UNCHANGED <<table, iniVars, recvVars, sendVars, mcuVars, passed, faults>>

Send(i) ==
    /\ thread[i] = "idle" /\ passed[Com(i)] < MaxSends
    /\ ThreadGoto(i, "sending")
    /\ UNCHANGED <<table, iniVars, recvVars, slotVars, sendVars, mcuVars, copy, taken,
                   passed, faults>>

\* Mutant: one message more than the queue holds.
EnqueueOneMore(i) ==
    LET c == Com(i) IN
    /\ thread[i] = "sending"
    /\ Len(queue[c]) <= QueueMax /\ passed[c] < MaxSends
    /\ queue' = [queue EXCEPT ![c] = Append(@, "data")]
    /\ passed' = [passed EXCEPT ![c] = @ + 1]
    /\ ThreadGoto(i, "idle")
    /\ UNCHANGED <<table, iniVars, recvVars, slotVars, queueOk, client, sent, mcuVars,
                   copy, taken, faults>>

\* msgsnd blocks while the queue is full, and fails without one.
Enqueue(i) ==
    LET c == Com(i) IN
    /\ thread[i] = "sending"
    /\ Len(queue[c]) < QueueMax /\ passed[c] < MaxSends
    /\ IF c \in queueOk
         THEN /\ queue' = [queue EXCEPT ![c] = Append(@, "data")]
              /\ passed' = [passed EXCEPT ![c] = @ + 1]
         ELSE UNCHANGED <<queue, passed>>
    /\ ThreadGoto(i, "idle")
    /\ UNCHANGED <<table, iniVars, recvVars, slotVars, queueOk, client, sent, mcuVars,
                   copy, taken, faults>>

EntryThread(i) ==
    \/ ListenWait(i) \/ ListenHead(i) \/ ListenTail(i) \/ ListenClear(i)
    \/ Send(i) \/ Enqueue(i)

-----------------------------------------------------------------------------
(* The client task of a com: msgrcv and sendto.                            *)

\* The data frames among the messages are counted.
CountSent(c) ==
    sent' = IF Head(queue[c]) = "data" THEN [sent EXCEPT ![c] = @ + 1] ELSE sent

\* Mutant: the last message of the queue is left in it.
ClientSendAllButOne(c) ==
    /\ client[c] = "up" /\ c \in queueOk /\ Len(queue[c]) > 1
    /\ queue' = [queue EXCEPT ![c] = Tail(@)]
    /\ CountSent(c)
    /\ UNCHANGED <<table, iniVars, recvVars, slotVars, queueOk, client, mcuVars,
                   threadVars, faults>>

\* A request that arrives makes the MCU configure the bus; it may be lost.
ClientSend(c) ==
    /\ client[c] = "up" /\ c \in queueOk /\ queue[c] # << >>
    /\ queue' = [queue EXCEPT ![c] = Tail(@)]
    /\ CountSent(c)
    /\ \/ Head(queue[c]) = "cfg" /\ mcu' = [mcu EXCEPT ![c] = "asked"]
       \/ UNCHANGED mcu
    /\ UNCHANGED <<table, iniVars, recvVars, slotVars, queueOk, client, made,
                   threadVars, faults>>

\* After a failing sendto the task returns; nobody starts it again.
ClientFails(c) ==
    /\ client[c] = "up" /\ c \in queueOk /\ queue[c] # << >> /\ Fault
    /\ queue' = [queue EXCEPT ![c] = Tail(@)]
    /\ client' = [client EXCEPT ![c] = "dead"]
    /\ UNCHANGED <<table, iniVars, recvVars, slotVars, queueOk, sent, mcuVars,
                   threadVars>>

\* The MCU answers the request, then it sends frames.  A datagram is lost when
\* the socket is not bound or has no room, or on the way.
McuSend(c) ==
    LET b == ServerBus[c]
        f == [com |-> c, n |-> made[c] + 1, cfg |-> mcu[c] = "asked"]
    IN /\ \E i \in 1..Entries : Com(i) = c     \* the other buses have no receiver
       /\ mcu[c] # "off" /\ made[c] < MaxFrames[c]
       /\ made' = [made EXCEPT ![c] = @ + 1]
       /\ mcu' = [mcu EXCEPT ![c] = "on"]
       /\ \/ /\ server[b] \notin {"none", "bind", "dead"}
             /\ Len(socket[b]) < SocketMax
             /\ socket' = [socket EXCEPT ![b] = Append(@, f)]
          \/ UNCHANGED socket
       /\ UNCHANGED <<table, iniVars, callback, server, hand, slotVars, sendVars,
                      threadVars, faults>>

Next ==
    \/ Initialiser
    \/ \E b \in Buses : ServerTask(b)
    \/ \E i \in 1..Entries : EntryThread(i)
    \/ \E c \in Coms : ClientSend(c) \/ ClientFails(c) \/ McuSend(c)

Spec == Init /\ [][Next]_vars

-----------------------------------------------------------------------------
(* Fairness.  The tasks and threads run; a thread that waits for a         *)
(* semaphore again and again free gets it in the end: a listener leaves    *)
(* its polling loop after at most wait_time seconds, and threads that wait *)
(* are woken by sem_post.  Nothing is assumed of the MCU or the network.   *)
ServerStep(b) == Bind(b) \/ Recv(b) \/ CallbackHead(b) \/ CallbackTail(b)
ThreadStep(i) == ListenHead(i) \/ ListenTail(i) \/ ListenClear(i) \/ Enqueue(i)

\* The buses some entry uses; nothing ever happens on the others.
UsedComs == {c \in Coms : \E t \in Configs : \E i \in 1..Entries : t[i].com = c}

Fairness ==
    /\ WF_vars(Initialiser)
    /\ \A c \in UsedComs :
         /\ WF_vars(ServerStep(ServerBus[c])) /\ SF_vars(CallbackWait(ServerBus[c]))
         /\ WF_vars(ClientSend(c))
    /\ \A i \in 1..Entries : WF_vars(ThreadStep(i)) /\ SF_vars(ListenWait(i))

FairSpec == Spec /\ Fairness

-----------------------------------------------------------------------------
(* Properties.                                                             *)

Inside == {"head", "tail", "clear"}

\* Somebody is between sem_wait and sem_post of the semaphore of a bus: its
\* server task, a listener that reads its array, or the initialiser.
ListenerHolds(i, b) == thread[i] \in Inside /\ DataBus[Com(i)] = b
IniHolds(b)         == ini \in Inside /\ CfgSem[ComHere] = b
Held(b) == \/ server[b] \in Inside
           \/ \E i \in 1..Entries : ListenerHolds(i, b)
           \/ IniHolds(b)

\* A listener or a server task that waits for a semaphore waits for one that is
\* free or that somebody holds: never for one that nobody has initialised, or
\* that somebody left without posting it.
WaitersAreServed ==
    \A b \in Buses :
        sem[b] = 0 /\ ~Held(b) =>
            /\ server[b] # "wait"
            /\ \A i \in 1..Entries : thread[i] = "wait" => DataBus[Com(i)] # b

\* What a listener is about to take out of an array is one whole frame, of its
\* own bus, and newer than every frame taken before: no frame is torn, received
\* by the listener of another bus, received twice or after a newer one.  (Buses
\* whose array the initialiser reads under another bus's semaphore are excepted.)
CopyIsFreshFrame ==
    \A i \in 1..Entries :
        LET c == Com(i)
            f == copy[i].head
        IN thread[i] = "clear" /\ DataBus[c] \in GuardedBuses /\ copy[i] # Cleared =>
             copy[i].tail = f /\ f.com = c /\ f.n > taken[c]

\* The frames reported as sent that have not left the node are at most as many as
\* a queue holds; when the client task has died there may be one more, the one its
\* failing sendto lost, and then senders block.
SendsLostBounded ==
    \A c \in Coms :
        passed[c] - sent[c] <= QueueMax + (IF client[c] = "dead" THEN 1 ELSE 0)

\* Threads are started, unless a queue could not be created: then the initialiser
\* polls for a response that cannot come (the loop of comCfgInit).
ThreadsStart == <>(ini = "done" \/ (ini = "wait" /\ ComHere \notin queueOk))

\* A frame that has come out of the socket is taken by a listener, or was replaced
\* in the array by one that is: unless the initialiser is caught in its loop, or
\* the bus has no listener.
Attended(c) == \E i \in 1..Entries :
    Com(i) = c /\ table[i].mode = "listen" /\ thread[i] # "off"

FrameIsTaken ==
    \A c \in UsedComs : \A n \in 1..MaxFrames[c] :
        server[ServerBus[c]] = "wait" /\ hand[ServerBus[c]].n = n
            ~> \/ taken[c] >= n
               \/ ini \in {"wait"} \cup Inside
               \/ ini = "done" /\ ~Attended(c)

\* A thread that is blocked in msgsnd gets its frame into the queue, as long as
\* the client task of the bus lives.
SendsFinish ==
    \A i \in 1..Entries :
        thread[i] = "sending" ~> thread[i] # "sending" \/ client[Com(i)] # "up"

=============================================================================
