------------------------------ MODULE Startup ------------------------------
(***************************************************************************)
(* The start of a node: the initialisers of its entries and the creation   *)
(* of their threads (interface_group_operator.c, initializer_closer_lib.c, *)
(* base/rs485_recv_send.c), in the child of the supervisor.                *)
(*                                                                         *)
(* Descriptors are small numbers that the operating system hands out, the  *)
(* lowest that is free.  An open one holds the kind of socket or port, the *)
(* device it is bound to and the frames that wait in it.                   *)
(***************************************************************************)
EXTENDS Interfaces

CONSTANTS
    MaxFds,       \* descriptors a process may have open
    FpuChannels   \* CAN channels the gateway can set up

(* Null is also a descriptor that was not set: it is none of those there    *)
(* are.                                                                     *)
ASSUME StartupAssumption == MaxFds \in Nat /\ Null \notin 1..MaxFds

VARIABLES
    next,               \* entry the main thread is at
    initialized_flags,  \* whether the initialiser of each entry succeeded
    fds,                \* the descriptors of the process
    threads             \* entries whose thread has been created

startVars == <<next, initialized_flags, fds, threads>>

Fds == 1..MaxFds
Vacant == [kind |-> "none"]    \* a descriptor that is not open
Free  == {fd \in Fds : fds[fd] = Vacant}
NewFd == Least(Free)
NoDevice == <<"none">>
Descriptor(kind, device, frames) ==
    [kind |-> kind, device |-> device, bound |-> device # NoDevice,
     frames |-> frames]

(* What the descriptors of a node are bound to. *)
Card(i)    == <<"card", get_ip_name_by_index(i)>>
Address(i) == <<"address", get_ip_addr_by_index(i),
                interface_info_array[i].eth_info.port_id>>
Port(i)    == <<"port", get_rs485_dev_path_by_index(i)>>
Channel(i) == <<"channel", IF get_channel_id_by_index(i) = 0 THEN 0 ELSE 1>>

StartInit ==
    /\ next = 1
    /\ initialized_flags = << >>
    /\ fds = [fd \in Fds |-> Vacant]
    /\ threads = {}

-----------------------------------------------------------------------------
(* initializer_transfer returns to test_or_listen_upon_interface_group. *)
Initialised(success) ==
    /\ initialized_flags' = Append(initialized_flags, success)
    /\ next' = next + 1
    /\ UNCHANGED <<phase, threads>>

(* The initialiser of the entry the main thread is at works on entry i. *)
Initialising(name, i) ==
    /\ phase = "initialise"
    /\ next \in Entries
    /\ interface_info_array[next].initializer_name = name
    /\ i = Index(next)

AlreadyInitialised(i) ==
    /\ interface_info_array[i].initialized_flag > 0
    /\ Initialised(TRUE)
    /\ UNCHANGED <<interface_info_array, fds>>

Refuse ==
    /\ Initialised(FALSE)
    /\ UNCHANGED <<interface_info_array, fds>>

(* strcmp of a name that is NULL ends the process. *)
Crash ==
    /\ phase' = "crashed"
    /\ UNCHANGED <<interface_info_array, startVars>>

(* The entries whose interface uses the same device as entry i. *)
SameCard(i) ==
    {j \in OfType("eth") : get_ip_name_by_index(j) = get_ip_name_by_index(i)}
SamePort(i) ==
    {j \in OfType("rs485") :
        get_rs485_dev_path_by_index(j) = get_rs485_dev_path_by_index(i)}
SameChannel(i) ==
    {j \in OfType("can") :
        get_channel_id_by_index(j) = get_channel_id_by_index(i)}

Flagged(array, S) ==
    [j \in DOMAIN array |->
        IF j \in S THEN [array[j] EXCEPT !.initialized_flag = 1] ELSE array[j]]

FlaggedWith(array, S, fd) ==
    [j \in DOMAIN array |->
        IF j \in S THEN [array[j] EXCEPT !.initialized_flag = 1, !.fd = fd]
        ELSE array[j]]

NoAddress(i) == get_ip_addr_by_index(i) = Null \/ get_net_mask_by_index(i) = Null
NoName == \E j \in OfType("eth") : get_ip_name_by_index(j) = Null
NoPath == \E j \in Entries : /\ interface_info_array[j].interface_type = "rs485"
                             /\ get_rs485_dev_path_by_index(j) = Null

(* The status is set for the entry itself only, the flag for all entries of *)
(* the card, those with another initialiser included.                       *)
eth_initializer_normal ==
    \E i \in Entries :
        /\ Initialising("eth_initializer_normal", i)
        /\ \/ AlreadyInitialised(i)
           \/ /\ interface_info_array[i].initialized_flag <= 0
              /\ IF NoAddress(i) THEN Refuse
                 ELSE IF NoName THEN Crash
                 ELSE /\ interface_info_array' =
                           Flagged(set_interface_status(interface_info_array, i,
                                       "sending_and_receiving"), SameCard(i))
                      /\ UNCHANGED fds
                      /\ Initialised(TRUE)

(* The xy socket takes the frames of every card until it is bound; one that *)
(* came before is still in it afterwards.                                   *)
EarlyFrames ==
    {<< >>} \cup {<<[device |-> Card(j), early |-> TRUE]>> : j \in OfType("eth")}

(* One socket for all entries of the card. *)
eth_initializer_xy ==
    \E i \in Entries :
        /\ Initialising("eth_initializer_xy", i)
        /\ \/ AlreadyInitialised(i)
           \/ /\ interface_info_array[i].initialized_flag <= 0
              /\ IF NoAddress(i) THEN Refuse
                 ELSE LET opened == set_interface_status(interface_info_array, i,
                                                "sending_and_receiving")
                      IN  \/ /\ Free # {} /\ ~NoName
                             /\ \E frames \in EarlyFrames :
                                    fds' = [fds EXCEPT ![NewFd] =
                                        Descriptor("packet", Card(i), frames)]
                             /\ interface_info_array' =
                                    FlaggedWith(opened, SameCard(i), NewFd)
                             /\ Initialised(TRUE)
                          \/ NoName /\ Crash
                          \* socket, ioctl or bind failed
                          \/ /\ interface_info_array' = opened
                             /\ UNCHANGED fds
                             /\ Initialised(FALSE)

\* Mutant: the port is kept for the entry that opened it only.
OpenPortForOne(i) ==
    /\ Free # {}
    /\ get_rs485_dev_path_by_index(i) # Null
    /\ fds' = [fds EXCEPT ![NewFd] = Descriptor("port", Port(i), << >>)]
    /\ interface_info_array' =
           [Flagged(interface_info_array, SamePort(i))
                EXCEPT ![i].fd = NewFd]

(* open_port: opened and set up, for all entries that have this path. *)
OpenPort(i) ==
    /\ Free # {}
    /\ get_rs485_dev_path_by_index(i) # Null
    /\ fds' = [fds EXCEPT ![NewFd] = Descriptor("port", Port(i), << >>)]
    /\ interface_info_array' =
           FlaggedWith(interface_info_array,
               SamePort(i), NewFd)

rs485_initializer_normal ==
    \E i \in Entries :
        /\ Initialising("rs485_initializer_normal", i)
        /\ \/ AlreadyInitialised(i)
           \/ /\ interface_info_array[i].initialized_flag <= 0
              /\ \/ ~NoPath /\ OpenPort(i) /\ Initialised(TRUE)
                 \/ NoPath /\ get_rs485_dev_path_by_index(i) # Null /\ Crash
                 \/ Refuse

can_fpu_initializer_normal ==
    \E i \in Entries :
        /\ Initialising("can_fpu_initializer_normal", i)
        /\ \/ AlreadyInitialised(i)
           \/ /\ interface_info_array[i].initialized_flag <= 0
              /\ \/ /\ get_channel_id_by_index(i) \in FpuChannels
                    /\ interface_info_array' =
                           Flagged(set_interface_status(interface_info_array, i,
                                       "receiving"),
                               SameChannel(i))
                    /\ Initialised(TRUE)
                 \/ /\ interface_info_array' =
                           set_interface_status(interface_info_array, i, "closed")
                    /\ Initialised(FALSE)
              /\ UNCHANGED fds

can_gpu_initializer_normal ==
    \E i \in Entries :
        /\ Initialising("can_gpu_initializer_normal", i)
        /\ Initialised(TRUE)
        /\ UNCHANGED <<interface_info_array, fds>>

Initializers == {"eth_initializer_normal", "eth_initializer_xy",
                 "rs485_initializer_normal", "can_fpu_initializer_normal",
                 "can_gpu_initializer_normal"}

initializer_transfer ==
    \/ eth_initializer_normal
    \/ eth_initializer_xy
    \/ rs485_initializer_normal
    \/ can_fpu_initializer_normal
    \/ can_gpu_initializer_normal
    \/ /\ phase = "initialise" /\ next \in Entries
       /\ interface_info_array[next].initializer_name \notin Initializers
       /\ Refuse

InitialiseDone ==
    /\ phase = "initialise"
    /\ next = Len(interface_info_array) + 1
    /\ phase' = "create" /\ next' = 1
    /\ UNCHANGED <<interface_info_array, initialized_flags, fds, threads>>

-----------------------------------------------------------------------------
(* A thread for each entry whose initialiser succeeded, in order; if one    *)
(* cannot be created the process exits, with those that run already.  The   *)
(* thread of a listen entry creates one that listens; if that cannot be     *)
(* created it joins an id that was never set, which may end the process.    *)
CreateThread ==
    /\ phase = "create"
    /\ next \in Entries
    /\ \/ /\ initialized_flags[next]
          /\ \/ threads' = threads \cup {next} /\ next' = next + 1
                /\ UNCHANGED phase
             \/ phase' = "exited" /\ UNCHANGED <<threads, next>>
             \/ /\ interface_info_array[next].mode = "listen"
                /\ phase' = "crashed" /\ UNCHANGED <<threads, next>>
       \/ /\ ~initialized_flags[next]
          /\ next' = next + 1
          /\ UNCHANGED <<phase, threads>>
    /\ UNCHANGED <<interface_info_array, initialized_flags, fds>>

(* The ids of threads that the main thread joins and that were never        *)
(* created: it is held by the first that was.                               *)
JoinedUnset ==
    {i \in Entries : /\ ~initialized_flags[i]
                     /\ \A j \in threads : i < j}

(* pthread_join of an id that was never set: whatever the memory holds, the *)
(* process ends or the call returns.                                        *)
JoinThreads ==
    /\ phase = "create"
    /\ next = Len(interface_info_array) + 1
    /\ \/ JoinedUnset # {} /\ phase' = "crashed"
       \/ phase' = IF threads = {} THEN "exited" ELSE "run"
    /\ UNCHANGED <<interface_info_array, startVars>>

StartNext == initializer_transfer \/ InitialiseDone \/ CreateThread \/ JoinThreads

-----------------------------------------------------------------------------
(* An entry that was started by the initialiser of its type has what its    *)
(* functions work with: the socket of its card, or the port of its path,    *)
(* open and bound, also when another entry opened it.  Not so where         *)
(* eth_initializer_normal, run for an earlier entry of the card, flagged    *)
(* the entry first: it then works with a descriptor that was never set.     *)
StartedHasDevice ==
    LET Opened(i, kind, device) ==
            LET fd == interface_info_array[i].fd
            IN  /\ fd \in Fds \ Free
                /\ fds[fd].kind = kind /\ fds[fd].device = device
        StartedBy(i, initializer, type) ==
            /\ interface_info_array[i].initializer_name = initializer
            /\ interface_info_array[i].interface_type = type
        FlaggedBefore(i) == \E j \in SameCard(i) :
            j < i /\ interface_info_array[j].initializer_name
                         = "eth_initializer_normal"
    IN  phase \in {"create", "run"} =>
            \A i \in threads :
                /\ (StartedBy(i, "eth_initializer_xy", "eth") /\ ~FlaggedBefore(i)) =>
                       Opened(Index(i), "packet", Card(Index(i)))
                /\ StartedBy(i, "rs485_initializer_normal", "rs485") =>
                       Opened(Index(i), "port", Port(Index(i)))
=============================================================================
