------------------------------ MODULE Firmware ------------------------------
(***************************************************************************)
(* send_message and receive_message, and the drivers of Ethernet cards and *)
(* of the CAN channels of the GPU below them (firmware.c,                  *)
(* base/eth_recv_send_by_mac_addr.c, base/eth_recv_send_xy.c,              *)
(* base/eth_recv_send_by_ip_addr.c, base/can_gpu_recv_send.c).             *)
(*                                                                         *)
(* A driver opens a socket in every call, sends or receives one message    *)
(* with it and closes it; eth_recv_send_xy uses the socket of its card.    *)
(* The threads of the entries share the process's descriptors, two arrays  *)
(* with the MAC addresses of the packet being made, and an array for each  *)
(* CAN channel.  The serial ports are in HalfDuplex, the CAN channels of   *)
(* the FPU in CanGateway.                                                  *)
(***************************************************************************)
EXTENDS Startup

CONSTANTS
    WellFormed,   \* MAC addresses that stringToMacAddress understands
    Partial,      \* an array that some bytes of a malformed one were written to
    MaxCalls,     \* bound: calls of all threads together
    MaxArrivals   \* bound: frames that come in

ASSUME FirmwareAssumption == MaxCalls \in Nat

VARIABLES
    srcmac, dstmac,      \* addresses of the packet being made
    can_array,           \* can0RecvArray and can1RecvArray
    call,                \* the call each thread is in
    calls,               \* calls begun by all threads
    arrivals,            \* frames that came in
    \* history variables
    leaked,              \* descriptors left open by a write that failed
    packets,             \* packets sent, with the addresses on them
    dealt                \* messages handed to a deal thread

firmwareVars == <<srcmac, dstmac, can_array, call, calls, arrivals, leaked,
                  packets, dealt>>

Zeros == [device |-> <<"zeros">>, early |-> FALSE]
Idle  == [at |-> "idle", fd |-> Null, src |-> Null, dst |-> Null,
          msg |-> Null, mixed |-> FALSE]

FirmwareInit ==
    /\ srcmac = Null /\ dstmac = Null
    /\ can_array = [channel \in {0, 1} |-> Zeros]
    /\ call = << >> /\ calls = 0
    /\ arrivals = 0
    /\ leaked = {}
    /\ packets = {}
    /\ dealt = {}

Running == phase \in {"create", "run"}
Entry(i) == interface_info_array[Index(i)]
Sends(i)    == Entry(i).mode = "test"
Receives(i) == Entry(i).mode = "listen"
SendFunc(i) == Entry(i).base_send_func
ReceiveFunc(i) == Entry(i).base_receive_func

At(i, where) == Running /\ i \in threads /\ call[i].at = where
Goto(i, where) == call' = [call EXCEPT ![i].at = where]
Return(i) == call' = [call EXCEPT ![i] = Idle]

-----------------------------------------------------------------------------
(* Frames.  A packet socket takes those of every card until it is bound;    *)
(* the other kinds take nothing before.                                     *)
Kind(device) == CASE device[1] = "card"    -> "packet"
                  [] device[1] = "address" -> "udp"
                  [] device[1] = "channel" -> "can"

Takes(descriptor, device) ==
    /\ descriptor.kind = Kind(device)
    /\ \/ descriptor.device = device
       \/ descriptor.kind = "packet" /\ descriptor.device = NoDevice

(* Every socket that takes a frame gets a copy. *)
Delivered(table, device) ==
    [fd \in Fds |->
        IF ~Takes(table[fd], device) THEN table[fd]
        ELSE [table[fd] EXCEPT !.frames =
                 Append(@, [device |-> device, early |-> ~table[fd].bound])]]

Devices == {Card(i) : i \in OfType("eth")}
           \cup {Address(i) : i \in OfType("eth")}
           \cup {Channel(i) : i \in OfType("can")}

Arrive(device) ==
    /\ Running
    /\ arrivals < MaxArrivals
    /\ arrivals' = arrivals + 1
    /\ fds' = Delivered(fds, device)
    /\ UNCHANGED <<phase, interface_info_array, next, initialized_flags, threads,
                   srcmac, dstmac, can_array, call, calls, leaked, packets, dealt>>

(* What a driver call leaves alone. *)
Quiet == UNCHANGED <<phase, interface_info_array, next, initialized_flags,
                     threads, arrivals>>

-----------------------------------------------------------------------------
(* Statuses.  Before a thread sends in a round, and before every call that  *)
(* listens, the status its entry has in the round is chosen and set.        *)
status_chooser_transfer(i, odd) ==
    LET chooser == Entry(i).status_chooser
        works   == \/ chooser = "work_at_each_round"
                   \/ chooser = "only_work_at_odd_round" /\ odd
                   \/ chooser = "only_work_at_even_round" /\ ~odd
    IN  IF chooser \notin {"work_at_each_round", "only_work_at_odd_round",
                           "only_work_at_even_round"} THEN "closed"
        ELSE IF works <=> Sends(i) THEN "sending" ELSE "receiving"

Paired == {<<"send_packet_by_ip_addr", "receive_packet_by_ip_addr">>,
           <<"send_packet_by_mac_addr", "receive_packet_by_mac_addr">>,
           <<"send_packet_xy", "receive_packet_xy">>,
           <<"send_packet_rs485", "receive_packet_rs485">>,
           <<"send_packet_can_fpu", "receive_packet_can_fpu">>,
           <<"send_packet_can_gpu", "receive_packet_can_gpu">>}

(* An entry that sends and receives by different drivers keeps its status.  *)
(* The ifconfig of set_status is given the name of the entry, which no card *)
(* has.                                                                     *)
set_status(i, status) ==
    IF <<SendFunc(i), ReceiveFunc(i)>> \in Paired
    THEN set_interface_status(interface_info_array, Index(i), status)
    ELSE interface_info_array

(* send_message and receive_message end when the status forbids them. *)
Forbidden(i) == {IF Sends(i) THEN "receiving" ELSE "sending", "closed"}

(* The status is set for an odd or an even round; the call goes on, or not. *)
update_status_in_current_round(i, GoesOn) ==
    \E odd \in BOOLEAN :
        /\ interface_info_array' = set_status(i, status_chooser_transfer(i, odd))
        /\ IF interface_info_array'[Index(i)].status \in Forbidden(i)
           THEN call' = call /\ calls' = calls
           ELSE GoesOn

-----------------------------------------------------------------------------
(* send_message and receive_message choose the driver by its name.          *)
InPacket == {"source", "destination", "copy destination", "copy source"}
MakingPackets == {j \in threads : call[j].at \in InPacket}

Begin(i, where) ==
    /\ calls' = calls + 1
    /\ call' = [j \in DOMAIN call |->
           IF j = i THEN [Idle EXCEPT !.at = where,
                              !.mixed = where = "source" /\ MakingPackets # {}]
           ELSE IF where = "source" /\ j \in MakingPackets
           THEN [call[j] EXCEPT !.mixed = TRUE]
           ELSE call[j]]

(* A call with a NULL MAC address or name of a card returns at once. *)
HasAddresses(i) == /\ get_mac_addr_by_index(Index(i)) # Null
                   /\ get_linked_mac_addr_by_index(Index(i)) # Null
HasCard(i) == get_ip_name_by_index(Index(i)) # Null

Starts(i, GoesOn) ==
    /\ At(i, "idle") /\ calls < MaxCalls
    /\ update_status_in_current_round(i, GoesOn)
    /\ UNCHANGED <<phase, next, initialized_flags, fds, threads, arrivals,
                   srcmac, dstmac, can_array, leaked, packets, dealt>>

send_message(i) ==
    /\ Sends(i)
    /\ \/ /\ SendFunc(i) \in {"send_packet_by_mac_addr", "send_packet_xy"}
          /\ HasAddresses(i)
          /\ SendFunc(i) = "send_packet_by_mac_addr" => HasCard(i)
          /\ Starts(i, Begin(i, "source"))
       \/ /\ SendFunc(i) \in {"send_packet_by_ip_addr", "send_packet_can_gpu"}
          /\ Starts(i, Begin(i, "socket"))

receive_message(i) ==
    /\ Receives(i)
    /\ \/ /\ ReceiveFunc(i) \in {"receive_packet_by_mac_addr",
                                 "receive_packet_by_ip_addr",
                                 "receive_packet_can_gpu"}
          /\ ReceiveFunc(i) = "receive_packet_by_mac_addr" => HasCard(i)
          /\ Starts(i, Begin(i, "socket"))
       \/ /\ ReceiveFunc(i) = "receive_packet_xy"
          /\ Starts(i, Begin(i, "receive"))

-----------------------------------------------------------------------------
(* The addresses of a packet: converted into the two shared arrays, byte by *)
(* byte until one of a malformed text is not understood, and copied from    *)
(* them.                                                                    *)
stringToMacAddress(text, old) ==
    IF text \in WellFormed THEN {text} ELSE {old, Partial}

Source(i) ==
    /\ At(i, "source")
    /\ srcmac' \in stringToMacAddress(get_mac_addr_by_index(Index(i)), srcmac)
    /\ Goto(i, "destination")
    /\ UNCHANGED <<fds, dstmac, can_array, calls, leaked, packets, dealt>>
    /\ Quiet

\* Mutant: the packet is addressed to its sender.
DestinationOfSender(i) ==
    /\ At(i, "destination")
    /\ dstmac' \in stringToMacAddress(get_mac_addr_by_index(Index(i)), dstmac)
    /\ Goto(i, "copy destination")
    /\ UNCHANGED <<fds, srcmac, can_array, calls, leaked, packets, dealt>>
    /\ Quiet

Destination(i) ==
    /\ At(i, "destination")
    /\ dstmac' \in stringToMacAddress(get_linked_mac_addr_by_index(Index(i)), dstmac)
    /\ Goto(i, "copy destination")
    /\ UNCHANGED <<fds, srcmac, can_array, calls, leaked, packets, dealt>>
    /\ Quiet

CopyDestination(i) ==
    /\ At(i, "copy destination")
    /\ call' = [call EXCEPT ![i].dst = dstmac, ![i].at = "copy source"]
    /\ UNCHANGED <<fds, srcmac, dstmac, can_array, calls, leaked, packets, dealt>>
    /\ Quiet

CopySource(i) ==
    /\ At(i, "copy source")
    /\ call' = [call EXCEPT ![i].src = srcmac,
                    ![i].at = IF SendFunc(i) = "send_packet_xy" THEN "send"
                              ELSE "socket"]
    /\ UNCHANGED <<fds, srcmac, dstmac, can_array, calls, leaked, packets, dealt>>
    /\ Quiet

-----------------------------------------------------------------------------
(* Sockets of a call. *)
Driver(i) == IF Sends(i) THEN SendFunc(i) ELSE ReceiveFunc(i)

SocketKind(i) ==
    CASE Driver(i) \in {"send_packet_by_mac_addr", "receive_packet_by_mac_addr"}
             -> "packet"
      [] Driver(i) \in {"send_packet_by_ip_addr", "receive_packet_by_ip_addr"}
             -> "udp"
      [] OTHER -> "can"

Device(i) == CASE SocketKind(i) = "packet" -> Card(Index(i))
               [] SocketKind(i) = "udp"    -> Address(Index(i))
               [] OTHER                    -> Channel(Index(i))

(* The senders to a card or an address do not bind their socket. *)
Binds(i) == Driver(i) \notin {"send_packet_by_mac_addr", "send_packet_by_ip_addr"}

(* An address or the name of a card that is NULL is used unchecked by the   *)
(* drivers by IP address, the peer's own included.                          *)
ByAddress == {"send_packet_by_ip_addr", "receive_packet_by_ip_addr"}

NullPeer(i) == /\ Driver(i) = "send_packet_by_ip_addr"
               /\ get_linked_ip_addr_by_index(Index(i)) = Null
NullSelf(i) ==
    \/ Driver(i) \in ByAddress /\ ~HasCard(i)
    \/ Driver(i) = "receive_packet_by_ip_addr" /\ get_ip_addr_by_index(Index(i)) = Null

socket(i) ==
    /\ At(i, "socket")
    /\ \/ /\ Free # {}
          /\ fds' = [fds EXCEPT ![NewFd] = Descriptor(SocketKind(i), NoDevice, << >>)]
          /\ call' = [call EXCEPT ![i].fd = NewFd,
                          ![i].at = IF Binds(i) THEN "bind" ELSE "send"]
       \/ Return(i) /\ UNCHANGED fds
    /\ UNCHANGED <<srcmac, dstmac, can_array, calls, leaked, packets, dealt>>
    /\ Quiet

Closed(i) == [fds EXCEPT ![call[i].fd] = Vacant]

\* Mutant: the call goes on with the socket it closed.
FailAndGoOn(i) ==
    /\ At(i, "bind")
    /\ fds' = Closed(i)
    /\ Goto(i, "receive")
    /\ UNCHANGED <<srcmac, dstmac, can_array, calls, leaked, packets, dealt>>
    /\ Quiet

(* ioctl or bind failed. *)
Fail(i) ==
    /\ At(i, "bind")
    /\ fds' = Closed(i)
    /\ Return(i)
    /\ UNCHANGED <<srcmac, dstmac, can_array, calls, leaked, packets, dealt>>
    /\ Quiet

(* One socket at a time is bound to a UDP address: a listener that finds it *)
(* taken tries again every second, for as long as it takes.                 *)
Taken(i) == \E fd \in Fds : fds[fd].kind = "udp" /\ fds[fd].device = Device(i)

\* Mutant: the index of the card is not put into the address.
BindToAnyCard(i) ==
    /\ At(i, "bind")
    /\ ~(SocketKind(i) = "udp" /\ Taken(i))
    /\ fds' = [fds EXCEPT ![call[i].fd].bound = TRUE]
    /\ Goto(i, IF Sends(i) THEN "send" ELSE "receive")
    /\ UNCHANGED <<srcmac, dstmac, can_array, calls, leaked, packets, dealt>>
    /\ Quiet

bind(i) ==
    /\ At(i, "bind") /\ ~NullSelf(i)
    /\ ~(SocketKind(i) = "udp" /\ Taken(i))
    /\ fds' = [fds EXCEPT ![call[i].fd].device = Device(i),
                           ![call[i].fd].bound = TRUE]
    /\ Goto(i, IF Sends(i) THEN "send" ELSE "receive")
    /\ UNCHANGED <<srcmac, dstmac, can_array, calls, leaked, packets, dealt>>
    /\ Quiet

-----------------------------------------------------------------------------
(* Sending.                                                                *)
(* A CAN socket passes what it sends to the others of its channel.          *)
send_packet_can_gpu(i) ==
    \/ /\ fds' = Delivered(Closed(i), Device(i))
       /\ UNCHANGED <<leaked, packets>>
    \* a write that failed leaves the socket open
    \/ /\ leaked' = leaked \cup {call[i].fd}
       /\ UNCHANGED <<fds, packets>>

\* Mutant: an error leaves the socket open.
SendByAddressLeaking(i) ==
    /\ fds' \in {fds, Closed(i)}
    /\ packets' \in {packets, packets \cup {[entry |-> Index(i), src |-> call[i].src,
                         dst |-> call[i].dst, mixed |-> call[i].mixed]}}
    /\ UNCHANGED leaked

(* ioctl and sendto; the socket is closed whether they succeed or not, and   *)
(* when the address of the peer is not one.                                 *)
SendByAddress(i) ==
    /\ fds' = Closed(i)
    /\ NullSelf(i) => UNCHANGED packets
    /\ packets' \in
           {packets, packets \cup {[entry |-> Index(i), src |-> call[i].src,
                         dst |-> call[i].dst, mixed |-> call[i].mixed]}}
    /\ UNCHANGED leaked

send_packet_xy(i) ==
    /\ packets' \in
           {packets, packets \cup {[entry |-> Index(i), src |-> call[i].src,
                         dst |-> call[i].dst, mixed |-> call[i].mixed]}}
    /\ UNCHANGED <<fds, leaked>>

Send(i) ==
    /\ At(i, "send") /\ ~NullPeer(i)
    /\ CASE Driver(i) = "send_packet_can_gpu" -> send_packet_can_gpu(i)
         [] Driver(i) = "send_packet_xy"      -> send_packet_xy(i)
         [] OTHER                             -> SendByAddress(i)
    /\ Return(i)
    /\ UNCHANGED <<srcmac, dstmac, can_array, calls, dealt>>
    /\ Quiet

-----------------------------------------------------------------------------
(* Receiving.  The message goes to a thread of its own, which may not start. *)
Deal(i, msg) ==
    dealt' \in {dealt, dealt \cup {[entry |-> Index(i), msg |-> msg]}}

(* A descriptor that was never set is any number. *)
Receiver(i) ==
    IF ReceiveFunc(i) # "receive_packet_xy" THEN {call[i].fd}
    ELSE IF Entry(i).fd = Null THEN Fds ELSE {Entry(i).fd}

(* Nothing came in time, or the call failed. *)
ReceiveNothing(i) ==
    /\ At(i, "receive")
    /\ fds' = IF ReceiveFunc(i) = "receive_packet_xy" THEN fds ELSE Closed(i)
    /\ Return(i)
    /\ UNCHANGED <<srcmac, dstmac, can_array, calls, leaked, packets, dealt>>
    /\ Quiet

Receive(i) ==
    /\ At(i, "receive")
    /\ \E fd \in Receiver(i) :
         /\ fds[fd] # Vacant /\ fds[fd].frames # << >>
         /\ LET frame == Head(fds[fd].frames)
            IN  CASE ReceiveFunc(i) = "receive_packet_can_gpu" ->
                        /\ can_array' = [can_array EXCEPT ![Device(i)[2]] = frame]
                        /\ fds' = Closed(i)
                        /\ call' = [call EXCEPT ![i].fd = Null, ![i].at = "copy"]
                        /\ UNCHANGED dealt
                  [] ReceiveFunc(i) = "receive_packet_xy" ->
                        /\ fds' = [fds EXCEPT ![fd].frames = Tail(@)]
                        /\ Deal(i, frame)
                        /\ Return(i)
                        /\ UNCHANGED can_array
                  [] OTHER ->
                        /\ fds' = Closed(i)
                        /\ Deal(i, frame)
                        /\ Return(i)
                        /\ UNCHANGED can_array
    /\ UNCHANGED <<srcmac, dstmac, calls, leaked, packets>>
    /\ Quiet

(* receive_packet_can_gpu copies the array of the channel, and clears it. *)
CopyArray(i) ==
    /\ At(i, "copy")
    /\ call' = [call EXCEPT ![i].msg = can_array[Device(i)[2]], ![i].at = "clear"]
    /\ UNCHANGED <<fds, srcmac, dstmac, can_array, calls, leaked, packets, dealt>>
    /\ Quiet

ClearArray(i) ==
    /\ At(i, "clear")
    /\ can_array' = [can_array EXCEPT ![Device(i)[2]] = Zeros]
    /\ Deal(i, call[i].msg)
    /\ Return(i)
    /\ UNCHANGED <<fds, srcmac, dstmac, calls, leaked, packets>>
    /\ Quiet

(* The process dies in a call: of a NULL address or card, or of the printf  *)
(* of a structure as a string in send_message, before a packet of xy.       *)
Dies(i) ==
    /\ \/ At(i, "send") /\ (NullPeer(i) \/ NullSelf(i))
       \/ At(i, "bind") /\ NullSelf(i)
       \/ /\ At(i, "idle") /\ calls < MaxCalls
          /\ Driver(i) = "send_packet_xy"
          /\ \E odd \in BOOLEAN :
                 set_status(i, status_chooser_transfer(i, odd))[Index(i)].status
                     \notin Forbidden(i)
    /\ Crash
    /\ UNCHANGED firmwareVars

Steps(i) == send_message(i) \/ receive_message(i)
    \/ Source(i) \/ Destination(i) \/ CopyDestination(i) \/ CopySource(i)
    \/ socket(i) \/ Fail(i) \/ bind(i) \/ Send(i)
    \/ ReceiveNothing(i) \/ Receive(i) \/ CopyArray(i) \/ ClearArray(i)

FirmwareNext ==
    \/ \E i \in threads : Steps(i)
    \/ \E device \in Devices : Arrive(device)

-----------------------------------------------------------------------------
(* Every open descriptor is that of a call in progress or one the           *)
(* initialisers put in the table, or was left by a write to a CAN channel   *)
(* that failed; none has two owners, so that no call closes the descriptor  *)
(* of another.                                                              *)
DescriptorsAccounted ==
    LET open  == Fds \ Free
        Calls == {i \in DOMAIN call : call[i].fd # Null}
        ofCalls == {call[i].fd : i \in Calls}
        ofTable == {interface_info_array[i].fd : i \in Entries} \ {Null}
    IN  Running =>
            /\ open = ofCalls \cup ofTable \cup leaked
            /\ Cardinality(open) = Cardinality(Calls) + Cardinality(ofTable)
                                       + Cardinality(leaked)

(* A packet carries the addresses of its link, unless two threads made      *)
(* packets at the same time or an address of the table is malformed.        *)
AddressesOfLink ==
    \A p \in packets :
        (/\ ~p.mixed
         /\ interface_info_array[p.entry].base_send_func
                \in {"send_packet_by_mac_addr", "send_packet_xy"}
         /\ get_mac_addr_by_index(p.entry) \in WellFormed
         /\ get_linked_mac_addr_by_index(p.entry) \in WellFormed) =>
            /\ p.src = get_mac_addr_by_index(p.entry)
            /\ p.dst = get_linked_mac_addr_by_index(p.entry)

(* A message comes from the device of the entry it is dealt for.  There are *)
(* three exceptions: a frame that came to a packet socket before it was     *)
(* bound; zeros, where two entries listen to a CAN channel of the GPU; and  *)
(* an xy entry whose socket was never set.                                  *)
DealtFromOwnDevice ==
    \A d \in dealt :
        LET e == interface_info_array[d.entry]
            Listeners == {j \in Entries :
                /\ interface_info_array[j].mode = "listen"
                /\ interface_info_array[j].base_receive_func = "receive_packet_can_gpu"
                /\ Channel(j) = Channel(d.entry)}
        IN  CASE e.base_receive_func = "receive_packet_by_mac_addr" ->
                     d.msg.early \/ d.msg.device = Card(d.entry)
              [] e.base_receive_func = "receive_packet_xy" ->
                     e.fd = Null \/ d.msg.early \/ d.msg.device = Card(d.entry)
              [] e.base_receive_func = "receive_packet_by_ip_addr" ->
                     d.msg.device = Address(d.entry)
              [] e.base_receive_func = "receive_packet_can_gpu" ->
                     \/ d.msg.device = Channel(d.entry)
                     \/ d.msg = Zeros /\ Cardinality(Listeners) > 1
=============================================================================
